---- MODULE Spec2Model ----
(***************************************************************************)
(* Request/response correlation of the mesh model clients                  *)
(* (bluetooth_mesh/models): pending expectations, inbound dispatch, bulk   *)
(* and single queries, transaction identifiers and unacknowledged repeats; *)
(* and the access-message codec (bluetooth_mesh/messages): the opcode      *)
(* registry, the unknown-opcode envelope and the thermostat schemas.       *)
(*                                                                         *)
(* The clients of src/ are built on bluetooth_mesh.models.base.Model,      *)
(* whose source (expect_app, send_app, query, bulk_query, repeat, tid and  *)
(* the inbound dispatch over app_message_callbacks) is not among the       *)
(* source files.  Those parts are modelled from the specification and from *)
(* the way the clients call them; everything else follows the code.        *)
(***************************************************************************)
EXTENDS Integers, Sequences, FiniteSets, TLC

\* ------------------------------------------------------------------ bounds
MaxNode == 2            \* node addresses 1..MaxNode; node lists of that length
MaxCalls == 2           \* client calls started in one behaviour
MaxTargets == 1         \* length of the node list of calls that overlap
MaxRepeat == 2          \* largest caller-supplied retransmission count
MaxDelay == 3           \* largest caller-supplied delay / send interval
MaxPayload == 2         \* octets of a raw payload under an opcode without schema
MaxExpectations == 2    \* expectations created by direct calls of expect_subapp
MaxTime == 3            \* time units a call without a deadline is followed for

\* Python's None.  Addresses, indexes, payload values and times are >= 0.
None == 0 - 1

Nodes == 1..MaxNode
AppIndexes == {0, 1}
Values == {1, 2}                 \* decoded status payloads
Destinations == {0}              \* addresses the client's element receives on

\* class ThermostatOpcode(IntEnum): the names of its members.
ThermostatOpcodeNames == {"THERMOSTAT"}

\* Attribute access on an enum class: the member of that name, and
\* AttributeError for a name the enum does not define.
AttributeError == "AttributeError"
EnumAttribute(names, name) == IF name \in names THEN name ELSE AttributeError

\* The class bodies of ThermostatServer and ThermostatClient, evaluated when
\* models/vendor/thermostat.py is imported: both name
\* ThermostatOpcode.VENDOR_THERMOSTAT (OPCODES of the server, OPCODE of the
\* client).  The
\* enum has no member of that name, so the import raises AttributeError and
\* neither class is defined.
ThermostatClient_OPCODE == EnumAttribute(ThermostatOpcodeNames, "VENDOR_THERMOSTAT")

\* VendorModel itself binds no OPCODE (self.OPCODE in __init__ finds none), and
\* the one binding of the source files is ThermostatClient_OPCODE.  The
\* operations of the vendor model are modelled for the binding the
\* specification describes, the 3-octet vendor opcode 0xC00500, which is the
\* enum's member THERMOSTAT; no class of the source files has it.
OPCODE == EnumAttribute(ThermostatOpcodeNames, "THERMOSTAT")

\* Keys of app_message_callbacks (the status opcodes the clients listen on).
LIGHT_LIGHTNESS_STATUS == "LIGHT_LIGHTNESS_STATUS"
LIGHT_LIGHTNESS_LINEAR_STATUS == "LIGHT_LIGHTNESS_LINEAR_STATUS"
LIGHT_LIGHTNESS_LAST_STATUS == "LIGHT_LIGHTNESS_LAST_STATUS"
LIGHT_LIGHTNESS_DEFAULT_STATUS == "LIGHT_LIGHTNESS_DEFAULT_STATUS"
LIGHT_LIGHTNESS_RANGE_STATUS == "LIGHT_LIGHTNESS_RANGE_STATUS"
SENSOR_STATUS == "SENSOR_STATUS"
SENSOR_CADENCE_STATUS == "SENSOR_CADENCE_STATUS"
\* Sub-opcodes of the vendor message; "-" for a message without sub-opcode.
THERMOSTAT_STATUS == "THERMOSTAT_STATUS"
THERMOSTAT_RANGE_STATUS == "THERMOSTAT_RANGE_STATUS"
NoSub == "-"

\* All node lists a caller may pass (Sequence[int]), duplicates included.
RECURSIVE SeqsUpTo(_, _)
SeqsUpTo(S, n) ==
    IF n = 0 THEN {<<>>}
    ELSE LET shorter == SeqsUpTo(S, n - 1)
         IN shorter \cup {Append(s, x) : s \in {t \in shorter : Len(t) = n - 1}, x \in S}

NodeLists == SeqsUpTo(Nodes, MaxNode)

Range(s) == {s[i] : i \in 1..Len(s)}

IsDistinct(s) == \A i, j \in 1..Len(s) : i # j => s[i] # s[j]

\* The keys of a mapping that keeps one entry per element of the list.
DictKeys_per_occurrence(s) == s

\* Keys of a dict built by {node: ... for node in nodes}: first occurrences, in order.
DictKeys(s) ==
    LET IsFirst(i) == \A j \in 1..(i - 1) : s[j] # s[i]
        first == SelectSeq([i \in 1..Len(s) |-> i], IsFirst)
    IN [k \in 1..Len(first) |-> s[first[k]]]

\* Index of the last occurrence of x in s: the value a dict comprehension keeps.
LastIndex(s, x) == CHOOSE i \in 1..Len(s) : s[i] = x /\ \A j \in (i + 1)..Len(s) : s[j] # x

\* All orders in which a finite set can be iterated.
Orders(S) == {s \in [1..Cardinality(S) -> S] : \A i, j \in 1..Cardinality(S) : i # j => s[i] # s[j]}

Max(a, b) == IF a >= b THEN a ELSE b

\* ------------------------------------------------------------------ state
VARIABLES
    futures,      \* the asyncio.Future of every expectation created, with its filter
    callbacks,    \* app_message_callbacks: ids of the expectations registered
    calls,        \* the client calls (coroutines) started, with their locals and
                  \* the messages each has handed to the transport
    tidCounter,   \* Model._tid
    codec         \* the call made on AccessMessage (parse or build): its
                  \* argument and what it returned or raised

vars == <<futures, callbacks, calls, tidCounter, codec>>

\* Class attributes of Model (defaults of the unacknowledged repeat, in time
\* units) and the width of the transaction identifier.
UNACK_DELAY == 5
UNACK_SEND_INTERVAL == 2
UNACK_RETRANSMISSIONS == 3
TidModulus == 256

\* ------------------------------------------------------------------ codec calls
\* What a codec call returns: the fault it raised ("" for none), the bytes it
\* built and the message it parsed.
NoBytes == <<>>
NoMessage == [opcode |-> None, params |-> NoBytes]
Result(fault, bytes, message) == [fault |-> fault, bytes |-> bytes, message |-> message]

\* The argument of build: obj["opcode"] is a symbolic name (symbol) or an
\* opcode value (opcode); the other of the two is "" or None.
NoObject == [symbol |-> "", opcode |-> None, params |-> NoBytes]

\* No call made on AccessMessage yet.
NoCodecCall == [op |-> "none", data |-> NoBytes, obj |-> NoObject,
                out |-> Result("", NoBytes, NoMessage)]

\* ------------------------------------------------------------------ messages
\* Decoded params of a message: message[OPCODE.name.lower()].
Params(m) == [sub |-> m.sub, value |-> m.value]

NoParams == [sub |-> NoSub, value |-> None]

Inbound(opcodes, subs) ==
    {m \in [source : Nodes, app_index : AppIndexes, destination : Destinations,
            opcode : opcodes, sub : subs \cup {NoSub}, value : Values] :
        (m.opcode = OPCODE) <=> (m.sub # NoSub)}

\* No message.
NoInbound ==
    [source |-> None, app_index |-> None, destination |-> None,
     opcode |-> "", sub |-> NoSub, value |-> None]

\* ------------------------------------------------------------------ futures
\* A MessageDescription as a set of <<name, value>> pairs; dict() is empty.
EmptyDict == {}

\* The fault of looking up a name that the module does not define.
NameError == "NameError"

done(f) == f.state # "pending"

set_result(f, params) == [f EXCEPT !.state = "finished", !.result = params]

cancel(f) == IF done(f) THEN f ELSE [f EXCEPT !.state = "cancelled"]

\* expect_subapp: a fresh future and the filter its callback closes over.
\* first and late are history: the params of the first message the callback
\* accepted, and whether a message passing the filter was dispatched after the
\* future was settled.  params are the expected params (dict() unless
\* expect_subapp is handed others).  by and refused are history too, kept when the dispatch
\* is tracked: the message that fulfilled the future, and whether the callback
\* was offered a message that left the future pending.
NewFuture(source, app_index, destination, opcode, sub, owner) ==
    [source |-> source, app_index |-> app_index, destination |-> destination,
     opcode |-> opcode, sub |-> sub, owner |-> owner,
     state |-> "pending", result |-> NoParams, first |-> NoParams, late |-> FALSE,
     by |-> NoInbound, refused |-> FALSE, params |-> EmptyDict]

\* The callback written with neither the done() guard nor the return value.
app_message_received_naive(f, m) ==
    IF (m.source # f.source) \/ (m.app_index # f.app_index)
    THEN [ret |-> FALSE, raised |-> "", future |-> f]
    ELSE IF f.destination # None /\ m.destination # f.destination
    THEN [ret |-> FALSE, raised |-> "", future |-> f]
    ELSE [ret |-> FALSE, raised |-> "", future |-> set_result(f, Params(m))]

\* The callback that does not compare the source of the message.
app_message_received_any_source(f, m) ==
    IF m.app_index # f.app_index
    THEN [ret |-> FALSE, raised |-> "", future |-> f]
    ELSE IF f.destination # None /\ m.destination # f.destination
    THEN [ret |-> FALSE, raised |-> "", future |-> f]
    ELSE [ret |-> TRUE, raised |-> "", future |-> IF ~done(f) THEN set_result(f, Params(m)) ELSE f]

\* The callback that sets the result of a future whatever its state.
app_message_received_unguarded(f, m) ==
    IF (m.source # f.source) \/ (m.app_index # f.app_index)
    THEN [ret |-> FALSE, raised |-> "", future |-> f]
    ELSE IF f.destination # None /\ m.destination # f.destination
    THEN [ret |-> FALSE, raised |-> "", future |-> f]
    ELSE [ret |-> TRUE, raised |-> "", future |-> set_result(f, Params(m))]

\* The callback that fulfils its future but reports the message as not handled.
app_message_received_unhandled(f, m) ==
    IF (m.source # f.source) \/ (m.app_index # f.app_index)
    THEN [ret |-> FALSE, raised |-> "", future |-> f]
    ELSE IF f.destination # None /\ m.destination # f.destination
    THEN [ret |-> FALSE, raised |-> "", future |-> f]
    ELSE [ret |-> FALSE, raised |-> "", future |-> IF ~done(f) THEN set_result(f, Params(m)) ELSE f]

\* The callback that does not compare the destination of the message.
app_message_received_any_destination(f, m) ==
    IF (m.source # f.source) \/ (m.app_index # f.app_index)
    THEN [ret |-> FALSE, raised |-> "", future |-> f]
    ELSE [ret |-> TRUE, raised |-> "", future |-> IF ~done(f) THEN set_result(f, Params(m)) ELSE f]

\* expect_subapp.app_message_received: the callback's return value, the fault
\* it raises and what it does to its future.  "if params and not
\* construct_match(...)": with params=dict(), which every client passes, the
\* test is skipped and the sub-opcode is not looked at; with any other params
\* the name construct_match is looked up, and the module neither defines nor
\* imports it.
app_message_received(f, m) ==
    IF (m.source # f.source) \/ (m.app_index # f.app_index)
    THEN [ret |-> FALSE, raised |-> "", future |-> f]
    ELSE IF f.destination # None /\ m.destination # f.destination
    THEN [ret |-> FALSE, raised |-> "", future |-> f]
    ELSE IF f.params # EmptyDict
    THEN [ret |-> FALSE, raised |-> NameError, future |-> f]
    ELSE [ret |-> TRUE, raised |-> "", future |-> IF ~done(f) THEN set_result(f, Params(m)) ELSE f]

\* Inbound dispatch over the callbacks registered for the message's opcode, in
\* the order ord: each is offered the message until one accepts it; the one
\* that accepts is deregistered.  A fault raised by a callback leaves the loop.
\* invoked collects the callbacks that were run.
RECURSIVE Deliver(_, _, _, _, _)
Deliver(ord, m, futs, cbs, invoked) ==
    IF ord = <<>> THEN [futures |-> futs, callbacks |-> cbs, invoked |-> invoked]
    ELSE LET e == Head(ord)
             r == app_message_received(futs[e], m)
             futs2 == [futs EXCEPT ![e] = r.future]
         IN IF r.raised # ""
            THEN [futures |-> futs2, callbacks |-> cbs, invoked |-> invoked \cup {e}]
            ELSE IF r.ret
            THEN [futures |-> futs2, callbacks |-> cbs \ {e}, invoked |-> invoked \cup {e}]
            ELSE Deliver(Tail(ord), m, futs2, cbs, invoked \cup {e})

\* ------------------------------------------------------------------ calls
SingleKinds == {"sensor_get", "sensor_cadence_get"}
GetKinds == {"thermostat_get", "thermostat_range_get", "lightness_get"} \cup SingleKinds
SetKinds == {"lightness_set", "thermostat_set"}
SetupSetKinds == {"lightness_setup_set"}
\* The unacknowledged sets: set_unack and linear_set_unack carry a tid and a
\* delay, default_set_unack a tid, range_set_unack neither.
UnackKinds == {"set_unack", "linear_set_unack", "default_set_unack", "range_set_unack"}
DelayedUnackKinds == {"set_unack", "linear_set_unack"}
TidUnackKinds == {"set_unack", "linear_set_unack", "default_set_unack"}
VendorKinds == {"thermostat_get", "thermostat_range_get", "thermostat_set"}
BulkGetKinds == {"thermostat_get", "thermostat_range_get", "lightness_get"}
BulkKinds == BulkGetKinds \cup SetKinds \cup SetupSetKinds
\* The calls that wait in query or bulk_query.
QueryKinds == BulkKinds \cup SingleKinds

\* The key of app_message_callbacks a call's expectations are registered under
\* and the sub-opcode the call asks for in the result.
StatusOpcode(kind) ==
    IF kind \in VendorKinds THEN OPCODE
    ELSE IF kind = "sensor_get" THEN SENSOR_STATUS
    ELSE IF kind = "sensor_cadence_get" THEN SENSOR_CADENCE_STATUS
    ELSE LIGHT_LIGHTNESS_STATUS

StatusSub(kind) ==
    IF kind = "thermostat_range_get" THEN THERMOSTAT_RANGE_STATUS
    ELSE IF kind \in VendorKinds THEN THERMOSTAT_STATUS ELSE NoSub

\* A call's record: its arguments, its locals and its position.  keys are the
\* keys of its requests/statuses dicts; futs, tids, ret and heard are aligned
\* with keys; sent are the messages the call handed to the transport, each
\* with the time (at) it was issued, counted from the start of the call.
\* elapsed is that time now; interval is the pacing interval the call runs
\* with; error names the fault the call raised.
\* op names the operation of the lightness client, bulk_timeout is the
\* timeout the operation hands to bulk_query / query (None: none) and
\* status_opcode the opcode its expectations are registered under.
\* tid0, tid1, overlapped, heard, noise and failed are history.
NewCall(kind, nodes, app_index) ==
    [kind |-> kind, nodes |-> nodes, keys |-> DictKeys(nodes), app_index |-> app_index,
     futs |-> <<>>, tids |-> <<>>, sent |-> <<>>, state |-> "active", ret |-> <<>>,
     heard |-> LET keys == DictKeys(nodes) IN [i \in 1..Len(keys) |-> None],
     noise |-> FALSE,
     tid0 |-> tidCounter, tid1 |-> tidCounter, overlapped |-> FALSE,
     delay |-> None, send_interval |-> None, retransmissions |-> None,
     remaining_delay |-> 0, delay0 |-> 0, interval |-> 0, count |-> 0,
     timeout |-> None, elapsed |-> 0, error |-> "", failed |-> None,
     op |-> "", bulk_timeout |-> None, status_opcode |-> StatusOpcode(kind)]

\* statuses = {node: self.expect_subapp(source=node, ...) for node in nodes}:
\* one expectation per occurrence in nodes, every callback registered; the dict
\* keeps, for each node, the future of its last occurrence.
ExpectAll(nodes, app_index, opcode, sub, owner) ==
    [i \in 1..Len(nodes) |-> NewFuture(nodes[i], app_index, None, opcode, sub, owner)]

StatusFutures(nodes, base) ==
    LET keys == DictKeys(nodes)
    IN [i \in 1..Len(keys) |-> base + LastIndex(nodes, keys[i])]

\* ------------------------------------------------------------------ results
\* An entry of the mapping bulk_query returns (and the value query returns):
\* the result of the future, or an exception instance standing for "absent".
\* exc is "" for a result; TimeoutError is an Exception, CancelledError only a
\* BaseException.
AbsentClasses == {"TimeoutError", "CancelledError"}

Settled(f, exc) ==
    IF f.state = "finished" THEN [exc |-> "", params |-> f.result]
    ELSE [exc |-> exc, params |-> NoParams]

IsBaseException(r) == r.exc # ""
IsException(r) == r.exc = "TimeoutError"
HasGetItem(r) == r.exc = ""

\* Faults a result expression can raise.
KeyError == 0 - 2
TypeError == 0 - 3

\* client_simple_get: None if isinstance(result, BaseException)
\*                    else result[status_subopcode.name.lower()]
client_simple_get_item(r, status_sub) ==
    IF IsBaseException(r) THEN None
    ELSE IF r.params.sub = status_sub THEN r.params.value ELSE KeyError

\* LightLightnessClient.get: None if isinstance(result, Exception)
\*     or not hasattr(result, '__getitem__') else result[status_opcode.name.lower()]
lightness_get_item(r, status_sub) ==
    IF IsException(r) \/ ~HasGetItem(r) THEN None ELSE r.params.value

\* The single-query result indexed without looking at what query returned.
sensor_get_item_unchecked(r, status_sub) ==
    IF HasGetItem(r) THEN r.params.value ELSE TypeError

\* SensorClient.get: None if isinstance(result, BaseException)
\*                   else result[status_opcode.name.lower()]
sensor_get_item(r, status_sub) ==
    IF IsBaseException(r) THEN None ELSE r.params.value

ResultItem(kind, r) ==
    IF kind \in VendorKinds THEN client_simple_get_item(r, StatusSub(kind))
    ELSE IF kind \in SingleKinds THEN sensor_get_item(r, StatusSub(kind))
    ELSE lightness_get_item(r, StatusSub(kind))

\* The call's return value from the futures of its statuses: the mapping
\* node -> item; a fault raised by any item is the call's fault.
Returned(c, futs, exc) ==
    LET items == [i \in 1..Len(c.keys) |-> ResultItem(c.kind, Settled(futs[c.futs[i]], exc))]
    IN IF \E i \in 1..Len(items) : items[i] \in {KeyError, TypeError}
       THEN [c EXCEPT !.state = "fault"]
       ELSE [c EXCEPT !.state = "returned", !.ret = items]

\* ------------------------------------------------------------------ tid, repeat
\* Python's "x or default": None and 0 are both falsy.
Or(x, default) == IF x = None \/ x = 0 THEN default ELSE x

\* Model.tid(): advance the counter and return it.
tid(t) == (t + 1) % TidModulus

\* The counter after n calls of tid().
TidAfter(t, n) == (t + n) % TidModulus

\* LightLightnessClient.set: requests = {node: partial(..., params=dict(...,
\* tid=self.tid(), ...)) for node in nodes}.  self.tid() is evaluated once per
\* element of nodes; the dict keeps, for each node, the tid of its last
\* occurrence.  counter is Model._tid afterwards.
lightness_set_requests(nodes, t0) ==
    LET keys == DictKeys(nodes)
    IN [tids |-> [i \in 1..Len(keys) |-> TidAfter(t0, LastIndex(nodes, keys[i]))],
        counter |-> TidAfter(t0, Len(nodes))]

\* ThermostatClient.set: params = dict(..., tid=self.tid()) is built once and
\* shared by the requests of all nodes.
thermostat_set_requests(nodes, t0) ==
    LET keys == DictKeys(nodes)
    IN [tids |-> [i \in 1..Len(keys) |-> tid(t0)], counter |-> tid(t0)]

\* set_unack: remaining_delay = delay or self.UNACK_DELAY
initial_remaining_delay(delay) == Or(delay, UNACK_DELAY)

\* Model.repeat: the interval it sleeps between two transmissions.
repeat_interval(send_interval) == Or(send_interval, UNACK_SEND_INTERVAL)

\* The repeat that counts retransmissions after a first transmission.
repeat_count_after_first(retransmissions) ==
    (IF retransmissions = None THEN UNACK_RETRANSMISSIONS ELSE retransmissions) + 1

\* Model.repeat: the number of transmissions it makes, the repeat count the
\* caller passed (0 included) or the model's when the caller passed none.
repeat_count(retransmissions) ==
    IF retransmissions = None THEN UNACK_RETRANSMISSIONS ELSE retransmissions

\* The request that reads the model's counter when it is sent.
unack_request_counter_tid(c, counter) ==
    [tid |-> counter,
     delay |-> IF c.kind \in DelayedUnackKinds THEN c.remaining_delay ELSE None,
     remaining |-> IF c.kind \in DelayedUnackKinds
                   THEN Max(0, c.remaining_delay - Or(c.send_interval, UNACK_SEND_INTERVAL))
                   ELSE c.remaining_delay]

\* The request that subtracts the interval without the max(0.0, ...) clamp.
unack_request_unclamped(c, counter) ==
    [tid |-> c.tids[1],
     delay |-> IF c.kind \in DelayedUnackKinds THEN c.remaining_delay ELSE None,
     remaining |-> IF c.kind \in DelayedUnackKinds
                   THEN c.remaining_delay - Or(c.send_interval, UNACK_SEND_INTERVAL)
                   ELSE c.remaining_delay]

\* The request of an unacknowledged set: the tid and delay of the message
\* sent, and remaining_delay afterwards.  tid is the local taken before the
\* first transmission; default_set_unack and range_set_unack carry no delay.
unack_request(c, counter) ==
    [tid |-> c.tids[1],
     delay |-> IF c.kind \in DelayedUnackKinds THEN c.remaining_delay ELSE None,
     remaining |-> IF c.kind \in DelayedUnackKinds
                   THEN Max(0, c.remaining_delay - Or(c.send_interval, UNACK_SEND_INTERVAL))
                   ELSE c.remaining_delay]

\* ------------------------------------------------------------------ actions
Init ==
    /\ futures = <<>>
    /\ callbacks = {}
    /\ calls = <<>>
    /\ tidCounter = 0
    /\ codec = NoCodecCall

Active(c) == c \in DOMAIN calls /\ calls[c].state = "active"

\* History: a set call of kind kind starts while an unacknowledged set is
\* between two of its transmissions.
Overlap(kind) ==
    [c \in DOMAIN calls |->
        IF kind \in SetKinds \cup SetupSetKinds \cup UnackKinds /\ calls[c].kind \in UnackKinds
           /\ calls[c].state = "active" /\ Len(calls[c].sent) >= 1
        THEN [calls[c] EXCEPT !.overlapped = TRUE] ELSE calls[c]]

\* get / client_simple_get, and the acknowledged sets, up to the first
\* suspension: build the requests, register one expectation per node.
StartBulk(kind, nodes, app_index, req) ==
    /\ Len(calls) < MaxCalls
    /\ LET id == Len(calls) + 1
           c == [NewCall(kind, nodes, app_index) EXCEPT
                    !.futs = StatusFutures(nodes, Len(futures)),
                    !.tids = req.tids,
                    !.tid1 = req.counter]
       IN /\ calls' = Append(Overlap(kind), c)
          /\ futures' = futures \o ExpectAll(nodes, app_index, StatusOpcode(kind), StatusSub(kind), id)
          /\ callbacks' = callbacks \cup ((Len(futures) + 1)..(Len(futures) + Len(nodes)))
          /\ tidCounter' = req.counter
          /\ UNCHANGED codec

NoTids(nodes) ==
    LET keys == DictKeys(nodes)
    IN [tids |-> [i \in 1..Len(keys) |-> None], counter |-> tidCounter]

ThermostatGet(nodes, app_index) == StartBulk("thermostat_get", nodes, app_index, NoTids(nodes))

\* ThermostatClient.range_get: client_simple_get with THERMOSTAT_RANGE_GET and
\* THERMOSTAT_RANGE_STATUS.
ThermostatRangeGet(nodes, app_index) ==
    StartBulk("thermostat_range_get", nodes, app_index, NoTids(nodes))

LightnessGet(nodes, app_index) == StartBulk("lightness_get", nodes, app_index, NoTids(nodes))

LightnessSet(nodes, app_index) ==
    StartBulk("lightness_set", nodes, app_index, lightness_set_requests(nodes, tidCounter))

ThermostatSet(nodes, app_index) ==
    StartBulk("thermostat_set", nodes, app_index, thermostat_set_requests(nodes, tidCounter))

\* A single query of SensorClient up to its suspension in query: the
\* expectation is created with app_index=0, whatever app_index the caller passed.
SensorQuery(kind, destination, app_index) ==
    /\ Len(calls) < MaxCalls
    /\ LET id == Len(calls) + 1
           c == [NewCall(kind, <<destination>>, app_index) EXCEPT
                    !.futs = <<Len(futures) + 1>>, !.tids = <<None>>]
       IN /\ calls' = Append(calls, c)
          /\ futures' = Append(futures,
                           NewFuture(destination, 0, None, StatusOpcode(kind), NoSub, id))
          /\ callbacks' = callbacks \cup {Len(futures) + 1}
          /\ UNCHANGED <<tidCounter, codec>>

\* SensorClient.get: the status is SENSOR_STATUS.
SensorGet(destination, app_index) == SensorQuery("sensor_get", destination, app_index)

\* SensorClient.cadence_get: the status is SENSOR_CADENCE_STATUS.
SensorCadenceGet(destination, app_index) ==
    SensorQuery("sensor_cadence_get", destination, app_index)

\* expect_subapp called on its own: a fresh future, its callback registered
\* under the model's opcode.  No call owns the expectation (owner 0).
ExpectSubapp(source, app_index, destination, subopcode, params) ==
    /\ Len(futures) < MaxExpectations
    /\ futures' = Append(futures,
                     [NewFuture(source, app_index, destination, OPCODE, subopcode, 0)
                         EXCEPT !.params = params])
    /\ callbacks' = callbacks \cup {Len(futures) + 1}
    /\ UNCHANGED <<calls, tidCounter, codec>>

\* The local tid of an unacknowledged set and Model._tid afterwards:
\* tid = self.tid() in set_unack, linear_set_unack and default_set_unack;
\* range_set_unack takes none and its message carries none.
unack_tid(kind, t0) ==
    IF kind \in TidUnackKinds THEN [tid |-> tid(t0), counter |-> tid(t0)]
    ELSE [tid |-> None, counter |-> t0]

\* An unacknowledged set up to the first suspension in repeat; with a repeat
\* count of 0 repeat transmits nothing and the call returns at once.
SetUnack(kind, destination, app_index, delay, retransmissions, send_interval) ==
    /\ Len(calls) < MaxCalls
    /\ LET c == [NewCall(kind, <<destination>>, app_index) EXCEPT
                    !.tids = <<unack_tid(kind, tidCounter).tid>>,
                    !.tid1 = unack_tid(kind, tidCounter).counter,
                    !.delay = delay,
                    !.send_interval = send_interval,
                    !.retransmissions = retransmissions,
                    !.remaining_delay = IF kind \in DelayedUnackKinds
                                        THEN initial_remaining_delay(delay) ELSE 0,
                    !.delay0 = IF kind \in DelayedUnackKinds
                               THEN initial_remaining_delay(delay) ELSE 0,
                    !.interval = repeat_interval(send_interval),
                    !.count = repeat_count(retransmissions),
                    !.state = IF repeat_count(retransmissions) = 0
                              THEN "returned" ELSE "active"]
       IN /\ calls' = Append(Overlap(kind), c)
          /\ tidCounter' = unack_tid(kind, tidCounter).counter
          /\ UNCHANGED <<futures, callbacks, codec>>

\* bulk_query / query: issue the next request, in the order of the requests dict.
Send(c) ==
    /\ Active(c)
    /\ calls[c].kind \in QueryKinds
    /\ Len(calls[c].sent) < Len(calls[c].keys)
    /\ LET i == Len(calls[c].sent) + 1
       IN calls' = [calls EXCEPT ![c].sent = Append(@,
                        [destination |-> calls[c].keys[i],
                         app_index |-> calls[c].app_index,
                         tid |-> calls[c].tids[i],
                         delay |-> IF calls[c].kind = "lightness_set" THEN 0 ELSE None,
                         at |-> calls[c].elapsed])]
    /\ UNCHANGED <<futures, callbacks, tidCounter, codec>>

\* repeat: one transmission of the unacknowledged set; the call returns after
\* the last one.
RepeatSend(c) ==
    /\ Active(c)
    /\ calls[c].kind \in UnackKinds
    /\ Len(calls[c].sent) < calls[c].count
    /\ LET r == unack_request(calls[c], tidCounter)
       IN calls' = [calls EXCEPT
                       ![c].sent = Append(@, [destination |-> calls[c].keys[1],
                                              app_index |-> calls[c].app_index,
                                              tid |-> r.tid, delay |-> r.delay,
                                              at |-> calls[c].elapsed]),
                       ![c].remaining_delay = r.remaining,
                       ![c].state = IF Len(calls[c].sent) + 1 = calls[c].count
                                    THEN "returned" ELSE "active"]
    /\ UNCHANGED <<futures, callbacks, tidCounter, codec>>

\* Whether m passes the filter the expectation f was created with.
Passes(f, m) ==
    /\ m.opcode = f.opcode
    /\ m.source = f.source
    /\ m.app_index = f.app_index
    /\ f.destination # None => m.destination = f.destination

\* Whether m is the status node k sends in reply to call c.
IsReply(c, k, m) ==
    /\ m.source = k
    /\ m.app_index = c.app_index
    /\ m.opcode = c.status_opcode
    /\ m.sub = StatusSub(c.kind)

\* An inbound message from the transport: any message, at any time.  track
\* says whether the calls' history of what arrived (heard, noise) is kept.
Dispatch(m, track) ==
    \E ord \in Orders({e \in callbacks : futures[e].opcode = m.opcode}) :
        LET d == Deliver(ord, m, futures, callbacks, {})
        IN /\ futures' = [e \in DOMAIN futures |->
                 [d.futures[e] EXCEPT
                    !.first = IF e \in d.invoked /\ Passes(futures[e], m) /\ @ = NoParams
                              THEN Params(m) ELSE @,
                    !.late = @ \/ (done(futures[e]) /\ Passes(futures[e], m)),
                    !.by = IF track /\ ~done(futures[e]) /\ d.futures[e].state = "finished"
                           THEN m ELSE @,
                    !.refused = @ \/ (track /\ e \in d.invoked /\ ~done(d.futures[e]))]]
           /\ callbacks' = d.callbacks
           /\ calls' = [c \in DOMAIN calls |->
                 IF calls[c].state # "active" \/ ~track THEN calls[c]
                 ELSE [calls[c] EXCEPT
                    !.heard = [i \in 1..Len(calls[c].keys) |->
                                  IF @[i] = None /\ IsReply(calls[c], calls[c].keys[i], m)
                                  THEN m.value ELSE @[i]],
                    !.noise = @ \/ ~\E i \in 1..Len(calls[c].keys) :
                                        IsReply(calls[c], calls[c].keys[i], m)]]
           /\ UNCHANGED <<tidCounter, codec>>

AllDone(c) == \A i \in 1..Len(calls[c].futs) : done(futures[calls[c].futs[i]])

\* bulk_query / query: every request issued and every status settled.
Complete(c) ==
    /\ Active(c)
    /\ calls[c].kind \in QueryKinds
    /\ Len(calls[c].sent) = Len(calls[c].keys)
    /\ AllDone(c)
    /\ calls' = [calls EXCEPT ![c] = Returned(calls[c], futures, "TimeoutError")]
    /\ UNCHANGED <<futures, callbacks, tidCounter, codec>>

CancelStatuses(c) ==
    [e \in DOMAIN futures |->
        IF \E i \in 1..Len(calls[c].futs) : calls[c].futs[i] = e
        THEN cancel(futures[e]) ELSE futures[e]]

\* The deadline of bulk_query / query passes: the statuses still pending are
\* settled as absent.  bulk_query is handed the futures, not the callbacks
\* (statuses maps node -> future), so the callbacks stay registered.
Timeout(c, exc) ==
    /\ Active(c)
    /\ calls[c].kind \in QueryKinds
    /\ futures' = CancelStatuses(c)
    /\ calls' = [calls EXCEPT ![c] = Returned(calls[c], CancelStatuses(c), exc)]
    /\ UNCHANGED <<callbacks, tidCounter, codec>>

\* The caller cancels the call while it is suspended.
Cancel(c) ==
    /\ Active(c)
    /\ calls[c].kind \in QueryKinds
    /\ futures' = CancelStatuses(c)
    /\ calls' = [calls EXCEPT ![c].state = "cancelled"]
    /\ UNCHANGED <<callbacks, tidCounter, codec>>

\* ------------------------------------------------------------------ transport faults
\* The fault send_app raises when the transport cannot send.
TransportError == "TransportError"

\* The engine that files the fault as the result entry of the node and goes on
\* with the next request.
send_fault_recorded(c, i, futs) ==
    [call |-> [c EXCEPT !.failed = i,
                        !.sent = Append(@, [destination |-> c.keys[i], app_index |-> c.app_index,
                                            tid |-> c.tids[i], delay |-> None, at |-> c.elapsed])],
     futures |-> [futs EXCEPT ![c.futs[i]] = cancel(@)]]

\* bulk_query / query when the request of the i-th key raises: the fault
\* propagates through the await to the caller of the get.
send_fault(c, i, futs) ==
    [call |-> [c EXCEPT !.state = "fault", !.error = TransportError, !.failed = i],
     futures |-> futs]

\* The transport fails on the request that is due.
SendFault(c) ==
    /\ Active(c)
    /\ calls[c].kind \in QueryKinds
    /\ Len(calls[c].sent) < Len(calls[c].keys)
    /\ LET r == send_fault(calls[c], Len(calls[c].sent) + 1, futures)
       IN /\ calls' = [calls EXCEPT ![c] = r.call]
          /\ futures' = r.futures
    /\ UNCHANGED <<callbacks, tidCounter, codec>>

\* ------------------------------------------------------------------ time
\* What bulk_query runs with when the caller passes no send_interval (time
\* units).
DefaultSendInterval == 1

pacing_interval(send_interval) == Or(send_interval, DefaultSendInterval)

\* bulk_query / query suspends between the paced sends and again while it
\* awaits the deadline: the call is waiting once every request has been issued.
Waiting(c) == Len(c.sent) = Len(c.keys)

\* The instant the wait began: that of the last request.
WaitStart(c) == IF c.sent = <<>> THEN 0 ELSE c.sent[Len(c.sent)].at

\* The instant of the deadline: the timeout handed to bulk_query / query,
\* counted from the start of the wait.
DeadlineAt(c) == WaitStart(c) + c.bulk_timeout

\* The timeout is the caller's, with no default: a call that was handed none
\* waits without a deadline.
DeadlineReached(c) ==
    /\ Waiting(c)
    /\ c.bulk_timeout # None
    /\ c.elapsed >= DeadlineAt(c)

\* get / client_simple_get / client_simple_set called with send_interval and
\* timeout, up to the first suspension in bulk_query; both are handed on
\* unchanged.
BulkWithin(kind, nodes, app_index, req, send_interval, timeout) ==
    /\ Len(calls) < MaxCalls
    /\ LET id == Len(calls) + 1
           c == [NewCall(kind, nodes, app_index) EXCEPT
                    !.futs = StatusFutures(nodes, Len(futures)),
                    !.tids = req.tids,
                    !.tid1 = req.counter,
                    !.send_interval = send_interval,
                    !.timeout = timeout,
                    !.bulk_timeout = timeout,
                    !.interval = pacing_interval(send_interval)]
       IN /\ calls' = Append(Overlap(kind), c)
          /\ futures' = futures \o ExpectAll(nodes, app_index, StatusOpcode(kind), StatusSub(kind), id)
          /\ callbacks' = callbacks \cup ((Len(futures) + 1)..(Len(futures) + Len(nodes)))
          /\ tidCounter' = req.counter
          /\ UNCHANGED codec

GetWithin(kind, nodes, app_index, send_interval, timeout) ==
    BulkWithin(kind, nodes, app_index, NoTids(nodes), send_interval, timeout)

\* ThermostatClient.set called with send_interval and timeout.
ThermostatSetWithin(nodes, app_index, send_interval, timeout) ==
    BulkWithin("thermostat_set", nodes, app_index,
               thermostat_set_requests(nodes, tidCounter), send_interval, timeout)

\* SensorClient.get called with send_interval and timeout, up to its
\* suspension in query; both are handed on unchanged.
SensorGetWithin(destination, app_index, send_interval, timeout) ==
    /\ Len(calls) < MaxCalls
    /\ LET id == Len(calls) + 1
           c == [NewCall("sensor_get", <<destination>>, app_index) EXCEPT
                    !.futs = <<Len(futures) + 1>>, !.tids = <<None>>,
                    !.send_interval = send_interval,
                    !.timeout = timeout,
                    !.bulk_timeout = timeout,
                    !.interval = pacing_interval(send_interval)]
       IN /\ calls' = Append(calls, c)
          /\ futures' = Append(futures,
                           NewFuture(destination, 0, None, StatusOpcode("sensor_get"), NoSub, id))
          /\ callbacks' = callbacks \cup {Len(futures) + 1}
          /\ UNCHANGED <<tidCounter, codec>>

\* The acknowledged operations of LightLightnessClient.
LightnessGetOps == {"get", "linear_get", "last_get", "default_get", "range_get"}
LightnessSetOps == {"set", "linear_set", "default_set", "range_set"}
LightnessOps == LightnessGetOps \cup LightnessSetOps

\* The operations that pass bulk_query "timeout or len(nodes)".
NodeCountTimeoutOps == {"last_get", "default_get", "default_set", "range_get"}

\* The timeout an operation passes to bulk_query: timeout=timeout, or
\* timeout=timeout or len(nodes).
bulk_query_timeout(op, timeout, nodes) ==
    IF op \in NodeCountTimeoutOps THEN Or(timeout, Len(nodes)) ELSE timeout

\* status_opcode of each operation.
LightnessStatusOpcode(op) ==
    IF op \in {"linear_get", "linear_set"} THEN LIGHT_LIGHTNESS_LINEAR_STATUS
    ELSE IF op = "last_get" THEN LIGHT_LIGHTNESS_LAST_STATUS
    ELSE IF op \in {"default_get", "default_set"} THEN LIGHT_LIGHTNESS_DEFAULT_STATUS
    ELSE IF op \in {"range_get", "range_set"} THEN LIGHT_LIGHTNESS_RANGE_STATUS
    ELSE LIGHT_LIGHTNESS_STATUS

\* The kind of call an operation is: set and linear_set carry delay=0, the
\* setup sets (default_set, range_set) carry no delay.
OpKind(op) ==
    IF op \in {"set", "linear_set"} THEN "lightness_set"
    ELSE IF op \in LightnessSetOps THEN "lightness_setup_set" ELSE "lightness_get"

\* An acknowledged operation of LightLightnessClient up to its suspension in
\* bulk_query: the requests (with a tid per element of nodes for a set), one
\* expectation per node, and the timeout handed to bulk_query.
LightnessQuery(op, nodes, app_index, send_interval, timeout) ==
    /\ Len(calls) < MaxCalls
    /\ LET id == Len(calls) + 1
           req == IF op \in LightnessSetOps THEN lightness_set_requests(nodes, tidCounter)
                  ELSE NoTids(nodes)
           passed == bulk_query_timeout(op, timeout, nodes)
           c == [NewCall(OpKind(op), nodes, app_index) EXCEPT
                    !.op = op,
                    !.status_opcode = LightnessStatusOpcode(op),
                    !.futs = StatusFutures(nodes, Len(futures)),
                    !.tids = req.tids,
                    !.tid1 = req.counter,
                    !.send_interval = send_interval,
                    !.timeout = timeout,
                    !.bulk_timeout = passed,
                    !.interval = pacing_interval(send_interval)]
       IN /\ calls' = Append(Overlap(OpKind(op)), c)
          /\ futures' = futures \o ExpectAll(nodes, app_index, LightnessStatusOpcode(op), NoSub, id)
          /\ callbacks' = callbacks \cup ((Len(futures) + 1)..(Len(futures) + Len(nodes)))
          /\ tidCounter' = req.counter
          /\ UNCHANGED codec

\* The engine that issues its requests back to back.
SendDue_unpaced(c) ==
    /\ Active(c)
    /\ Len(calls[c].sent) < Len(calls[c].keys)

\* A request is due: one is left and the pacing interval has passed since the
\* last one.
SendDue(c) ==
    /\ Active(c)
    /\ Len(calls[c].sent) < Len(calls[c].keys)
    /\ calls[c].sent # <<>> =>
          calls[c].elapsed >= calls[c].sent[Len(calls[c].sent)].at + calls[c].interval

\* bulk_query: the paced send of the next request.
PacedSend(c) == SendDue(c) /\ Send(c)

\* Time passes for the suspended call: it sleeps until the next request is due
\* or waits for the deadline; MaxTime caps the wait that has no deadline.
Tick(c) ==
    /\ Active(c)
    /\ ~SendDue(c)
    /\ ~DeadlineReached(calls[c])
    /\ (Waiting(calls[c]) /\ calls[c].bulk_timeout = None) => calls[c].elapsed < MaxTime
    /\ calls' = [calls EXCEPT ![c].elapsed = @ + 1]
    /\ UNCHANGED <<futures, callbacks, tidCounter, codec>>

\* The shared deadline fires.
Deadline(c, exc) == Active(c) /\ DeadlineReached(calls[c]) /\ Timeout(c, exc)

\* ------------------------------------------------------------------ field codec
\* Faults of the codec.  StreamError: the stream ends inside a field;
\* FormatFieldError: an integer does not fit its field; EnumError: a value or
\* symbol outside an enumeration.
StreamError == "StreamError"
FormatFieldError == "FormatFieldError"
EnumError == "EnumError"

\* What parsing one field gives: the fault, the value and the bytes that follow.
Field(fault, value, rest) == [fault |-> fault, value |-> value, rest |-> rest]

\* What building gives: the fault and the bytes written.
Built(fault, bytes) == [fault |-> fault, bytes |-> bytes]

\* Int8ul
Int8ul_parse(data) ==
    IF Len(data) < 1 THEN Field(StreamError, None, data)
    ELSE Field("", data[1], Tail(data))

\* Int16sl: two octets, little-endian, two's complement.
Int16sl_parse(data) ==
    IF Len(data) < 2 THEN Field(StreamError, None, data)
    ELSE LET u == data[1] + 256 * data[2]
         IN Field("", IF u >= 32768 THEN u - 65536 ELSE u, SubSeq(data, 3, Len(data)))

\* The 16-bit field that keeps the low 16 bits of whatever it is given.
Int16sl_build_wrapping(raw) ==
    Built("", <<(raw % 65536) % 256, (raw % 65536) \div 256>>)

\* The 16-bit field written most significant octet first.
Int16sl_build_big_endian(raw) ==
    IF raw < 0 - 32768 \/ raw > 32767 THEN Built(FormatFieldError, NoBytes)
    ELSE Built("", <<(raw % 65536) \div 256, (raw % 65536) % 256>>)

Int16sl_build(raw) ==
    IF raw < 0 - 32768 \/ raw > 32767 THEN Built(FormatFieldError, NoBytes)
    ELSE Built("", <<(raw % 65536) % 256, (raw % 65536) \div 256>>)

\* Python's round(n / d) for integers n and d > 0: to nearest, ties to even.
round(n, d) ==
    LET q == n \div d
        r == n % d
    IN IF 2 * r < d THEN q
       ELSE IF 2 * r > d THEN q + 1
       ELSE IF q % 2 = 0 THEN q ELSE q + 1

\* Physical values are counted in thousandths of a degree; the resolution of
\* Temperature, 0.01, is TemperatureResolution thousandths.
TemperatureResolution == 10

\* DefaultCountValidator(Int16sl, rounding=2, resolution=0.01):
\* decode is round(raw * resolution, rounding), encode is round(value / resolution).
Temperature_decode(raw) == raw * TemperatureResolution
Temperature_encode(value) == round(value, TemperatureResolution)

Temperature_parse(data) ==
    LET f == Int16sl_parse(data)
    IN IF f.fault # "" THEN f ELSE Field("", Temperature_decode(f.value), f.rest)

Temperature_build(value) == Int16sl_build(Temperature_encode(value))

\* EnumAdapter(subcon, enum): enum lists the symbols, the one of value v at v + 1.
EnumAdapter_decode(enum, raw) ==
    IF raw + 1 \in DOMAIN enum THEN Field("", enum[raw + 1], NoBytes)
    ELSE Field(EnumError, None, NoBytes)

EnumAdapter_encode(enum, symbol) ==
    IF \E i \in DOMAIN enum : enum[i] = symbol
    THEN Field("", (CHOOSE i \in DOMAIN enum : enum[i] = symbol) - 1, NoBytes)
    ELSE Field(EnumError, None, NoBytes)

\* The symbols of an enumeration.
Symbols(enum) == {enum[i] : i \in DOMAIN enum}

ThermostatSubOpcode ==
    <<"THERMOSTAT_GET", "THERMOSTAT_SET", THERMOSTAT_STATUS,
      "THERMOSTAT_RANGE_GET", THERMOSTAT_RANGE_STATUS>>
ThermostatStatusCode == <<"GOOD", "INVALID_MODE", "INVALID_TEMPERATURE">>
ThermostatMode == <<"MANUAL", "AUTO", "RSVD1", "RSVD2">>

\* ------------------------------------------------------------------ opcodes
\* ThermostatOpcode.THERMOSTAT = 0xC00500
THERMOSTAT == 12584192

\* Opcode()._parse: one octet if the first octet is 0xxxxxxx, two if 10xxxxxx,
\* three if 11xxxxxx; the octets read, big-endian, are the opcode.
Opcode_parse(data) ==
    IF Len(data) < 1 THEN Field(StreamError, None, data)
    ELSE IF data[1] < 128 THEN Field("", data[1], Tail(data))
    ELSE IF data[1] < 192
    THEN IF Len(data) < 2 THEN Field(StreamError, None, data)
         ELSE Field("", data[1] * 256 + data[2], SubSeq(data, 3, Len(data)))
    ELSE IF Len(data) < 3 THEN Field(StreamError, None, data)
         ELSE Field("", data[1] * 65536 + data[2] * 256 + data[3], SubSeq(data, 4, Len(data)))

\* Opcode()._build: the opcode in as many octets as its value takes.
Opcode_build(opcode) ==
    IF opcode > 65535
    THEN Built("", <<opcode \div 65536, (opcode \div 256) % 256, opcode % 256>>)
    ELSE IF opcode > 255 THEN Built("", <<opcode \div 256, opcode % 256>>)
    ELSE Built("", <<opcode>>)

\* An opcode value of one of the three forms: building it and reading it back
\* gives the value.
IsOpcode(opcode) ==
    /\ opcode \in 0..16777215
    /\ Opcode_parse(Opcode_build(opcode).bytes) = Field("", opcode, NoBytes)

\* ------------------------------------------------------------------ thermostat schemas
\* The payload of ThermostatGet and ThermostatRangeGet: Struct() has no field.
EmptyPayload == [name \in {} |-> None]

Flag_parse(bit) == bit # 0
Flag_build(value) == IF value THEN 1 ELSE 0

\* ThermostatSet with the two bit fields in the opposite order in the octet.
ThermostatSet_build_swapped(payload) ==
    LET mode == EnumAdapter_encode(ThermostatMode, payload.mode)
        temperature == Temperature_build(payload.temperature)
    IN IF mode.fault # "" THEN Built(mode.fault, NoBytes)
       ELSE IF temperature.fault # "" THEN Built(temperature.fault, NoBytes)
       ELSE Built("", <<mode.value * 64 + payload.rsvd>> \o temperature.bytes)

\* ThermostatSet = Struct(rsvd: 6 bits, mode: 2 bits, temperature), the bit
\* fields most significant first in one octet.
ThermostatSet_parse(data) ==
    IF Len(data) < 1 THEN Field(StreamError, None, data)
    ELSE LET mode == EnumAdapter_decode(ThermostatMode, data[1] % 4)
             temperature == Temperature_parse(Tail(data))
         IN IF mode.fault # "" THEN Field(mode.fault, None, data)
            ELSE IF temperature.fault # "" THEN Field(temperature.fault, None, data)
            ELSE Field("", [rsvd |-> data[1] \div 4, mode |-> mode.value,
                            temperature |-> temperature.value], temperature.rest)

ThermostatSet_build(payload) ==
    LET mode == EnumAdapter_encode(ThermostatMode, payload.mode)
        temperature == Temperature_build(payload.temperature)
    IN IF mode.fault # "" THEN Built(mode.fault, NoBytes)
       ELSE IF temperature.fault # "" THEN Built(temperature.fault, NoBytes)
       ELSE Built("", <<payload.rsvd * 4 + mode.value>> \o temperature.bytes)

\* ThermostatStatus = Struct(status_code, (rsvd: 4 bits, heater_status: 1,
\* mode: 2, onoff_status: 1), target_temperature, present_temperature).
ThermostatStatus_parse(data) ==
    LET code == Int8ul_parse(data)
    IN IF code.fault # "" THEN Field(code.fault, None, data)
       ELSE LET status_code == EnumAdapter_decode(ThermostatStatusCode, code.value)
                bits == Int8ul_parse(code.rest)
            IN IF status_code.fault # "" THEN Field(status_code.fault, None, data)
               ELSE IF bits.fault # "" THEN Field(bits.fault, None, data)
               ELSE LET mode == EnumAdapter_decode(ThermostatMode, (bits.value \div 2) % 4)
                        target == Temperature_parse(bits.rest)
                        present == Temperature_parse(target.rest)
                    IN IF target.fault # "" THEN Field(target.fault, None, data)
                       ELSE IF present.fault # "" THEN Field(present.fault, None, data)
                       ELSE Field("", [status_code |-> status_code.value,
                                       rsvd |-> bits.value \div 16,
                                       heater_status |-> Flag_parse((bits.value \div 8) % 2),
                                       mode |-> mode.value,
                                       onoff_status |-> Flag_parse(bits.value % 2),
                                       target_temperature |-> target.value,
                                       present_temperature |-> present.value],
                                  present.rest)

\* ThermostatStatus with the bit fields packed least significant bit first.
ThermostatStatus_build_lsb_first(payload) ==
    LET status_code == EnumAdapter_encode(ThermostatStatusCode, payload.status_code)
        mode == EnumAdapter_encode(ThermostatMode, payload.mode)
        target == Temperature_build(payload.target_temperature)
        present == Temperature_build(payload.present_temperature)
    IN IF status_code.fault # "" THEN Built(status_code.fault, NoBytes)
       ELSE IF mode.fault # "" THEN Built(mode.fault, NoBytes)
       ELSE IF target.fault # "" THEN Built(target.fault, NoBytes)
       ELSE IF present.fault # "" THEN Built(present.fault, NoBytes)
       ELSE Built("", <<status_code.value,
                        payload.rsvd + Flag_build(payload.heater_status) * 16
                            + mode.value * 32 + Flag_build(payload.onoff_status) * 128>>
                      \o target.bytes \o present.bytes)

ThermostatStatus_build(payload) ==
    LET status_code == EnumAdapter_encode(ThermostatStatusCode, payload.status_code)
        mode == EnumAdapter_encode(ThermostatMode, payload.mode)
        target == Temperature_build(payload.target_temperature)
        present == Temperature_build(payload.present_temperature)
    IN IF status_code.fault # "" THEN Built(status_code.fault, NoBytes)
       ELSE IF mode.fault # "" THEN Built(mode.fault, NoBytes)
       ELSE IF target.fault # "" THEN Built(target.fault, NoBytes)
       ELSE IF present.fault # "" THEN Built(present.fault, NoBytes)
       ELSE Built("", <<status_code.value,
                        payload.rsvd * 16 + Flag_build(payload.heater_status) * 8
                            + mode.value * 2 + Flag_build(payload.onoff_status)>>
                      \o target.bytes \o present.bytes)

\* ThermostatRangeStatus = Struct(min_temperature, max_temperature)
ThermostatRangeStatus_parse(data) ==
    LET min == Temperature_parse(data)
        max == Temperature_parse(min.rest)
    IN IF min.fault # "" THEN Field(min.fault, None, data)
       ELSE IF max.fault # "" THEN Field(max.fault, None, data)
       ELSE Field("", [min_temperature |-> min.value, max_temperature |-> max.value], max.rest)

ThermostatRangeStatus_build(payload) ==
    LET min == Temperature_build(payload.min_temperature)
        max == Temperature_build(payload.max_temperature)
    IN IF min.fault # "" THEN Built(min.fault, NoBytes)
       ELSE IF max.fault # "" THEN Built(max.fault, NoBytes)
       ELSE Built("", min.bytes \o max.bytes)

\* The Switch of ThermostatParams: the payload schema of a sub-opcode.
Payload_parse(subopcode, data) ==
    IF subopcode = "THERMOSTAT_SET" THEN ThermostatSet_parse(data)
    ELSE IF subopcode = THERMOSTAT_STATUS THEN ThermostatStatus_parse(data)
    ELSE IF subopcode = THERMOSTAT_RANGE_STATUS THEN ThermostatRangeStatus_parse(data)
    ELSE Field("", EmptyPayload, data)

Payload_build(subopcode, payload) ==
    IF subopcode = "THERMOSTAT_SET" THEN ThermostatSet_build(payload)
    ELSE IF subopcode = THERMOSTAT_STATUS THEN ThermostatStatus_build(payload)
    ELSE IF subopcode = THERMOSTAT_RANGE_STATUS THEN ThermostatRangeStatus_build(payload)
    ELSE Built("", NoBytes)

\* The params decoded with the schema of SET whatever the sub-opcode.
ThermostatParams_parse_unswitched(data) ==
    LET raw == Int8ul_parse(data)
    IN IF raw.fault # "" THEN Field(raw.fault, None, data)
       ELSE LET subopcode == EnumAdapter_decode(ThermostatSubOpcode, raw.value)
            IN IF subopcode.fault # "" THEN Field(subopcode.fault, None, data)
               ELSE LET payload == ThermostatSet_parse(raw.rest)
                    IN IF payload.fault # "" THEN Field(payload.fault, None, data)
                       ELSE Field("", [subopcode |-> subopcode.value,
                                       payload |-> payload.value], payload.rest)

\* ThermostatParams = SwitchStruct(subopcode, payload: Switch(this.subopcode, ...))
ThermostatParams_parse(data) ==
    LET raw == Int8ul_parse(data)
    IN IF raw.fault # "" THEN Field(raw.fault, None, data)
       ELSE LET subopcode == EnumAdapter_decode(ThermostatSubOpcode, raw.value)
            IN IF subopcode.fault # "" THEN Field(subopcode.fault, None, data)
               ELSE LET payload == Payload_parse(subopcode.value, raw.rest)
                    IN IF payload.fault # "" THEN Field(payload.fault, None, data)
                       ELSE Field("", [subopcode |-> subopcode.value,
                                       payload |-> payload.value], payload.rest)

ThermostatParams_build(params) ==
    LET subopcode == EnumAdapter_encode(ThermostatSubOpcode, params.subopcode)
    IN IF subopcode.fault # "" THEN Built(subopcode.fault, NoBytes)
       ELSE LET payload == Payload_build(params.subopcode, params.payload)
            IN IF payload.fault # "" THEN Built(payload.fault, NoBytes)
               ELSE Built("", <<subopcode.value>> \o payload.bytes)

\* ThermostatMessage = SwitchStruct(opcode: Opcode(ThermostatOpcode), params)
ThermostatMessage_parse(data) ==
    LET opcode == Opcode_parse(data)
    IN IF opcode.fault # "" THEN Result(opcode.fault, NoBytes, NoMessage)
       ELSE IF opcode.value # THERMOSTAT THEN Result(EnumError, NoBytes, NoMessage)
       ELSE LET params == ThermostatParams_parse(opcode.rest)
            IN IF params.fault # "" THEN Result(params.fault, NoBytes, NoMessage)
               ELSE Result("", NoBytes, [opcode |-> THERMOSTAT, params |-> params.value])

ThermostatMessage_build(obj) ==
    LET params == ThermostatParams_build(obj.params)
    IN IF params.fault # "" THEN Result(params.fault, NoBytes, NoMessage)
       ELSE Result("", Opcode_build(THERMOSTAT).bytes \o params.bytes, obj)

\* ------------------------------------------------------------------ registry
\* _AccessMessage._opcodes, for the family whose schema is among the source
\* files: opcode value -> (opcode, message), and the opcodes' names.
Registered == {THERMOSTAT}
OpcodeValue(symbol) == IF symbol = "THERMOSTAT" THEN THERMOSTAT ELSE None

\* The decoder that knows no fallback for an opcode without schema.
AccessMessage_parse_strict(data) ==
    LET opcode == Opcode_parse(data)
    IN IF opcode.fault # "" THEN Result(opcode.fault, NoBytes, NoMessage)
       ELSE IF opcode.value \notin Registered THEN Result("KeyError", NoBytes, NoMessage)
       ELSE ThermostatMessage_parse(data)

\* The decoder that falls back to the raw envelope when the schema fails.
AccessMessage_parse_lenient(data) ==
    LET opcode == Opcode_parse(data)
    IN IF opcode.fault # "" THEN Result(opcode.fault, NoBytes, NoMessage)
       ELSE IF opcode.value \notin Registered
               \/ ThermostatMessage_parse(data).fault # ""
       THEN Result("", NoBytes, [opcode |-> opcode.value, params |-> opcode.rest])
       ELSE ThermostatMessage_parse(data)

\* _AccessMessage._parse
AccessMessage_parse(data) ==
    LET opcode == Opcode_parse(data)
    IN IF opcode.fault # "" THEN Result(opcode.fault, NoBytes, NoMessage)
       ELSE IF opcode.value \notin Registered
       THEN Result("", NoBytes, [opcode |-> opcode.value, params |-> opcode.rest])
       ELSE ThermostatMessage_parse(data)

\* The encoder that knows no fallback for an opcode without schema.
AccessMessage_build_strict(obj) ==
    IF obj.symbol # ""
    THEN IF OpcodeValue(obj.symbol) = None THEN Result("StopIteration", NoBytes, NoMessage)
         ELSE ThermostatMessage_build([obj EXCEPT !.opcode = OpcodeValue(obj.symbol)])
    ELSE IF obj.opcode \notin Registered THEN Result("KeyError", NoBytes, NoMessage)
    ELSE ThermostatMessage_build(obj)

\* The encoder that treats a name no opcode has like a value without schema
\* and writes obj["params"] as it is.
AccessMessage_build_name_fallback(obj) ==
    IF obj.symbol # ""
    THEN IF OpcodeValue(obj.symbol) = None THEN Result("", obj.params, obj)
         ELSE ThermostatMessage_build([obj EXCEPT !.opcode = OpcodeValue(obj.symbol)])
    ELSE IF obj.opcode \notin Registered
    THEN Result("", Opcode_build(obj.opcode).bytes \o obj.params, obj)
    ELSE ThermostatMessage_build(obj)

\* _AccessMessage._build: a name is looked up with next(), which raises
\* StopIteration, not KeyError, when no opcode has it; a value without schema
\* is written followed by obj["params"] as it is.
AccessMessage_build(obj) ==
    IF obj.symbol # ""
    THEN IF OpcodeValue(obj.symbol) = None THEN Result("StopIteration", NoBytes, NoMessage)
         ELSE ThermostatMessage_build([obj EXCEPT !.opcode = OpcodeValue(obj.symbol)])
    ELSE IF obj.opcode \notin Registered
    THEN Result("", Opcode_build(obj.opcode).bytes \o obj.params, obj)
    ELSE ThermostatMessage_build(obj)

\* AccessMessage.parse(data)
Parse(data) ==
    /\ codec' = [op |-> "parse", data |-> data, obj |-> NoObject,
                 out |-> AccessMessage_parse(data)]
    /\ UNCHANGED <<futures, callbacks, calls, tidCounter>>

\* AccessMessage.build(obj)
Build(obj) ==
    /\ codec' = [op |-> "build", data |-> NoBytes, obj |-> obj,
                 out |-> AccessMessage_build(obj)]
    /\ UNCHANGED <<futures, callbacks, calls, tidCounter>>

\* ------------------------------------------------------------------ vendor send
\* What send_subapp does: the fault it raises ("" for none) and the messages
\* it hands to the transport.
Handed(fault, sent) == [fault |-> fault, sent |-> sent]

\* The message send_subapp builds: opcode=self.OPCODE, params=dict(subopcode,
\* payload).
SubappMessage(subopcode, payload) ==
    [symbol |-> "", opcode |-> THERMOSTAT,
     params |-> [subopcode |-> subopcode, payload |-> payload]]

\* The message handed to the transport: _send_app(destination, app_index, data).
Transmitted(destination, app_index, data) ==
    [destination |-> destination, app_index |-> app_index,
     tid |-> None, delay |-> None, at |-> 0, data |-> data]

\* send_subapp from the outcome of AccessMessage.build (data) and of the
\* AccessMessage.parse(data) made for the log (message): a fault of either
\* leaves the function there, before _send_app.
send_encoded(destination, app_index, data, message) ==
    IF data.fault # "" THEN Handed(data.fault, <<>>)
    ELSE IF message.fault # "" THEN Handed(message.fault, <<>>)
    ELSE Handed("", <<Transmitted(destination, app_index, data.bytes)>>)

send_built(destination, app_index, data) ==
    send_encoded(destination, app_index, data, AccessMessage_parse(data.bytes))

\* The send that hands the transport whatever the encoder left and only then
\* reports the encoder's fault.
send_subapp_unchecked(destination, app_index, subopcode, payload) ==
    \* the encoder's fault, after the message has gone out
    LET handed(data) == Handed(data.fault, <<Transmitted(destination, app_index, data.bytes)>>)
    IN handed(AccessMessage_build(SubappMessage(subopcode, payload)))

\* VendorModel.send_subapp: data = AccessMessage.build(...), then
\* AccessMessage.parse(data) for the log, then _send_app(destination,
\* app_index, data).
send_subapp(destination, app_index, subopcode, payload) ==
    send_built(destination, app_index, AccessMessage_build(SubappMessage(subopcode, payload)))

\* The call last made on AccessMessage by send_subapp: the parse for the log
\* when the build succeeded, the build when it raised.
LastCodecCall(obj, built, parsed) ==
    IF built.fault # ""
    THEN [op |-> "build", data |-> NoBytes, obj |-> obj, out |-> built]
    ELSE [op |-> "parse", data |-> built.bytes, obj |-> NoObject, out |-> parsed]

\* send_subapp up to its suspension in "await super()._send_app(...)": the
\* message is built, parsed for the log and handed to the transport; a fault
\* of the codec ends the call before anything is handed over.
SendSubapp(destination, app_index, subopcode, payload) ==
    /\ Len(calls) < MaxCalls
    /\ \E r \in {send_subapp(destination, app_index, subopcode, payload)},
          built \in {AccessMessage_build(SubappMessage(subopcode, payload))} :
         \E parsed \in {AccessMessage_parse(built.bytes)} :
           /\ calls' = Append(calls,
                          [NewCall("send_subapp", <<destination>>, app_index) EXCEPT
                              !.state = IF r.fault # "" THEN "fault" ELSE "active",
                              !.error = r.fault,
                              !.sent = r.sent])
           /\ codec' = LastCodecCall(SubappMessage(subopcode, payload), built, parsed)
    /\ UNCHANGED <<futures, callbacks, tidCounter>>

\* _send_app completes: send_subapp returns.
SendSubappReturn(c) ==
    /\ Active(c)
    /\ calls[c].kind = "send_subapp"
    /\ calls' = [calls EXCEPT ![c].state = "returned"]
    /\ UNCHANGED <<futures, callbacks, tidCounter, codec>>

\* _send_app raises: the fault propagates through the await to the caller.
SendSubappFault(c) ==
    /\ Active(c)
    /\ calls[c].kind = "send_subapp"
    /\ calls' = [calls EXCEPT ![c].state = "fault", ![c].error = TransportError]
    /\ UNCHANGED <<futures, callbacks, tidCounter, codec>>

\* ------------------------------------------------------------------ specifications
\* Node lists of the calls that run side by side.
TargetLists == SeqsUpTo(Nodes, MaxTargets)

\* The thermostat and sensor clients, calls overlapping, under arbitrary
\* inbound status traffic.
Next ==
    \/ \E nodes \in TargetLists, a \in AppIndexes : ThermostatGet(nodes, a)
    \/ \E n \in Nodes, a \in AppIndexes : SensorGet(n, a)
    \/ \E c \in DOMAIN calls : Send(c)
    \/ \E m \in Inbound({OPCODE, SENSOR_STATUS}, {THERMOSTAT_STATUS}) :
          Dispatch(m, FALSE)
    \/ \E c \in DOMAIN calls : Complete(c)
    \/ \E c \in DOMAIN calls, exc \in AbsentClasses : Timeout(c, exc)
    \/ \E c \in DOMAIN calls : Cancel(c)

Spec == Init /\ [][Next]_vars

\* One bulk query on a client with no other call, under arbitrary inbound
\* traffic, duplicates and foreign sub-opcodes included.
NextBulk ==
    \/ \E nodes \in NodeLists, a \in AppIndexes : calls = <<>> /\ ThermostatGet(nodes, a)
    \/ \E nodes \in NodeLists, a \in AppIndexes : calls = <<>> /\ ThermostatRangeGet(nodes, a)
    \/ \E nodes \in NodeLists, a \in AppIndexes : calls = <<>> /\ LightnessGet(nodes, a)
    \/ \E c \in DOMAIN calls : Send(c)
    \/ \E m \in Inbound({OPCODE, LIGHT_LIGHTNESS_STATUS},
                        {THERMOSTAT_STATUS, THERMOSTAT_RANGE_STATUS}) : Dispatch(m, TRUE)
    \/ \E c \in DOMAIN calls : Complete(c)
    \/ \E c \in DOMAIN calls, exc \in AbsentClasses : Timeout(c, exc)

SpecBulk == Init /\ [][NextBulk]_vars

CallerCounts == {None} \cup 0..MaxRepeat
CallerDelays == {None} \cup 0..MaxDelay

\* Node lists of the set calls that overlap: to one node, to two, and one
\* that names a node twice.
SetLists == {nodes \in NodeLists : nodes # <<>> /\ nodes[1] = 1}

\* The set operations of the lightness and thermostat clients, calls
\* overlapping, each status arriving or not.
NextTid ==
    \/ \E nodes \in SetLists : LightnessSet(nodes, 0)
    \/ \E nodes \in SetLists : ThermostatSet(nodes, 0)
    \/ \E op \in {"default_set", "range_set"}, nodes \in SetLists :
          LightnessQuery(op, nodes, 0, None, None)
    \/ \E kind \in UnackKinds, n \in Nodes, r \in CallerCounts :
          SetUnack(kind, n, 0, None, r, None)
    \/ \E c \in DOMAIN calls : Send(c)
    \/ \E c \in DOMAIN calls : RepeatSend(c)
    \/ \E m \in Inbound({OPCODE, LIGHT_LIGHTNESS_STATUS, LIGHT_LIGHTNESS_DEFAULT_STATUS,
                         LIGHT_LIGHTNESS_RANGE_STATUS}, {THERMOSTAT_STATUS}) :
          m.value = 1 /\ m.app_index = 0 /\ Dispatch(m, FALSE)
    \/ \E c \in DOMAIN calls : Complete(c)
    \/ \E c \in DOMAIN calls, exc \in AbsentClasses : Timeout(c, exc)

SpecTid == Init /\ [][NextTid]_vars

\* A set call to as many nodes as the transaction identifier has values less
\* one.
WideList == [i \in 1..(TidModulus - 1) |-> i]

NoneActive == \A c \in DOMAIN calls : ~Active(c)

\* The acknowledged set calls of one client one after the other, the first to
\* one node, to two or to the nodes of WideList; no status arrives.
NextWrap ==
    \/ calls = <<>> /\ LightnessSet(WideList, 0)
    \/ \E nodes \in SetLists : NoneActive /\ LightnessSet(nodes, 0)
    \/ \E op \in {"linear_set", "default_set", "range_set"}, nodes \in SetLists :
          NoneActive /\ LightnessQuery(op, nodes, 0, None, None)
    \/ \E nodes \in SetLists : NoneActive /\ ThermostatSet(nodes, 0)
    \/ \E c \in DOMAIN calls : Send(c)
    \/ \E c \in DOMAIN calls, exc \in AbsentClasses : Timeout(c, exc)

SpecWrap == Init /\ [][NextWrap]_vars

\* One unacknowledged lightness set with every caller-supplied delay, repeat
\* count and send interval.
NextDelay ==
    \/ \E n \in Nodes, d \in CallerDelays, r \in CallerCounts, i \in CallerDelays :
          \E kind \in DelayedUnackKinds : calls = <<>> /\ SetUnack(kind, n, 0, d, r, i)
    \/ \E c \in DOMAIN calls : RepeatSend(c)

SpecDelay == Init /\ [][NextDelay]_vars

\* One get of the lightness, thermostat or sensor client over a transport that
\* may fail on any request.
NextFault ==
    \/ \E nodes \in NodeLists : calls = <<>> /\ LightnessGet(nodes, 0)
    \/ \E nodes \in NodeLists : calls = <<>> /\ ThermostatGet(nodes, 0)
    \/ \E n \in Nodes : calls = <<>> /\ SensorGet(n, 0)
    \/ \E c \in DOMAIN calls : Send(c)
    \/ \E c \in DOMAIN calls : SendFault(c)
    \/ \E m \in Inbound({OPCODE, LIGHT_LIGHTNESS_STATUS, SENSOR_STATUS},
                        {THERMOSTAT_STATUS}) : m.app_index = 0 /\ Dispatch(m, FALSE)
    \/ \E c \in DOMAIN calls : Complete(c)
    \/ \E c \in DOMAIN calls, exc \in AbsentClasses : Timeout(c, exc)

SpecFault == Init /\ [][NextFault]_vars

\* What a caller passes as timeout and send_interval.
CallerTimes == {None} \cup 1..MaxDelay

\* One query at a time, single or bulk, get or set, with every caller-supplied
\* pacing and timeout, under arbitrary inbound traffic: each status is
\* delivered, at any time, or lost, and statuses nobody asked for arrive too.
NextPaced ==
    \/ \E kind \in BulkGetKinds, nodes \in NodeLists, i \in CallerTimes, t \in CallerTimes :
          calls = <<>> /\ GetWithin(kind, nodes, 0, i, t)
    \/ \E nodes \in NodeLists, i \in CallerTimes, t \in CallerTimes :
          calls = <<>> /\ ThermostatSetWithin(nodes, 0, i, t)
    \/ \E op \in {"set", "default_set"}, nodes \in NodeLists,
          i \in CallerTimes, t \in CallerTimes :
              calls = <<>> /\ LightnessQuery(op, nodes, 0, i, t)
    \/ \E n \in Nodes, i \in CallerTimes, t \in CallerTimes :
          calls = <<>> /\ SensorGetWithin(n, 0, i, t)
    \/ \E c \in DOMAIN calls : PacedSend(c)
    \/ \E c \in DOMAIN calls : Tick(c)
    \/ \E m \in Inbound({OPCODE, LIGHT_LIGHTNESS_STATUS, LIGHT_LIGHTNESS_DEFAULT_STATUS,
                         SENSOR_STATUS}, {THERMOSTAT_STATUS, THERMOSTAT_RANGE_STATUS}) :
          m.value = 1 /\ Dispatch(m, FALSE)
    \/ \E c \in DOMAIN calls : Complete(c)
    \/ \E c \in DOMAIN calls, exc \in AbsentClasses : Deadline(c, exc)

SpecPaced == Init /\ [][NextPaced]_vars

\* The same under the event loop's scheduling: time passes, a request that is
\* due is sent, a timer that is due fires, a call whose statuses are all
\* settled resumes.  Nothing obliges the transport to deliver anything.
SpecLive ==
    /\ SpecPaced
    /\ WF_vars(\E c \in DOMAIN calls : PacedSend(c))
    /\ WF_vars(\E c \in DOMAIN calls : Tick(c))
    /\ WF_vars(\E c \in DOMAIN calls : Complete(c))
    /\ WF_vars(\E c \in DOMAIN calls, exc \in AbsentClasses : Deadline(c, exc))

\* Destinations a vendor message arrives on and destination filters a caller
\* passes to expect_subapp.
FilterDestinations == {0, 1}
DestinationFilters == {None} \cup FilterDestinations

\* Vendor messages of every source, application key, destination and sub-opcode.
VendorInbound ==
    [source : Nodes, app_index : AppIndexes, destination : FilterDestinations,
     opcode : {OPCODE}, sub : {THERMOSTAT_STATUS, THERMOSTAT_RANGE_STATUS},
     value : {1}]

\* Expected params a caller hands expect_subapp: none, and a mode.
ExpectedParams == {EmptyDict, {<<"mode", 1>>}}

\* Expectations created by expect_subapp with every filter, under arbitrary
\* vendor traffic.
NextFilter ==
    \/ \E n \in Nodes, a \in AppIndexes, d \in DestinationFilters,
          sub \in {THERMOSTAT_STATUS, THERMOSTAT_RANGE_STATUS}, params \in ExpectedParams :
              ExpectSubapp(n, a, d, sub, params)
    \/ \E m \in VendorInbound : Dispatch(m, TRUE)

SpecFilter == Init /\ [][NextFilter]_vars

\* One sensor get or cadence get under every application key; statuses arrive from any node
\* under any application key, or not at all.
NextSensor ==
    \/ \E n \in Nodes, a \in AppIndexes : calls = <<>> /\ SensorGet(n, a)
    \/ \E n \in Nodes, a \in AppIndexes : calls = <<>> /\ SensorCadenceGet(n, a)
    \/ \E c \in DOMAIN calls : Send(c)
    \/ \E m \in Inbound({SENSOR_STATUS, SENSOR_CADENCE_STATUS}, {}) : Dispatch(m, TRUE)
    \/ \E c \in DOMAIN calls : Complete(c)
    \/ \E c \in DOMAIN calls, exc \in AbsentClasses : Timeout(c, exc)

SpecSensor == Init /\ [][NextSensor]_vars

\* The status opcodes of the lightness client.
LightnessStatusOpcodes == {LightnessStatusOpcode(op) : op \in LightnessOps}

\* What a caller passes as timeout to an operation of the lightness client.
CallerTimeouts == {None} \cup 0..MaxDelay

\* One acknowledged operation of the lightness client with every
\* caller-supplied timeout; each status is delivered, at any time, or lost.
NextOps ==
    \/ \E op \in LightnessOps, nodes \in NodeLists, t \in CallerTimeouts :
          calls = <<>> /\ LightnessQuery(op, nodes, 0, None, t)
    \/ \E c \in DOMAIN calls : PacedSend(c)
    \/ \E c \in DOMAIN calls : Tick(c)
    \/ \E m \in Inbound(LightnessStatusOpcodes, {}) :
          m.value = 1 /\ m.app_index = 0 /\ Dispatch(m, FALSE)
    \/ \E c \in DOMAIN calls : Complete(c)
    \/ \E c \in DOMAIN calls, exc \in AbsentClasses : Deadline(c, exc)

SpecOps == Init /\ [][NextOps]_vars

\* Octets of raw payloads, and raw payloads of up to MaxPayload octets.
SampleBytes == {0, 1, 90, 255}
RawPayloads == SeqsUpTo(SampleBytes, MaxPayload)

\* Opcodes of the three widths that no family registers (0x7E, 0xBF01,
\* 0xC10500), and 0x0100, a value that is of none of the three forms.
UnknownOpcodes == {126, 48897, 12649728}
ExplicitOpcodes == UnknownOpcodes \cup {256}

\* Raw temperatures on the wire, the ends of the range and the test vectors'.
RawTemperatures == {0 - 32768, 0 - 1520, 0, 2650, 32767}
TemperatureWire == {Int16sl_build(raw).bytes : raw \in RawTemperatures}

\* Octets holding the bit fields.
BitOctets == {0, 9, 6, 85, 170, 255}

\* Payloads on the wire for each sub-opcode octet; 5 is no sub-opcode.
PayloadWire(sub) ==
    IF sub = 1 THEN {<<b>> \o t : b \in BitOctets, t \in TemperatureWire}
    ELSE IF sub = 2
    THEN {<<code, b>> \o t1 \o t2 :
             code \in {0, 2, 3}, b \in BitOctets, t1 \in TemperatureWire, t2 \in TemperatureWire}
    ELSE IF sub = 4 THEN {t1 \o t2 : t1 \in TemperatureWire, t2 \in TemperatureWire}
    ELSE {NoBytes, <<0>>}

ThermostatFrames ==
    UNION {{Opcode_build(THERMOSTAT).bytes \o <<sub>> \o w : w \in PayloadWire(sub)} :
              sub \in 0..5}

\* What arrives: whole frames, frames cut short anywhere, frames with an octet
\* too many, and frames of opcodes without schema.
ParseInputs ==
    UNION {{SubSeq(f, 1, n) : n \in 0..Len(f)} : f \in ThermostatFrames}
    \cup {f \o <<0>> : f \in ThermostatFrames}
    \cup {Opcode_build(o).bytes \o w : o \in UnknownOpcodes, w \in RawPayloads}

\* Temperatures a caller passes, in thousandths: on and off the 0.01 grid,
\* and beyond both ends of the signed 16-bit range.
Temperatures ==
    {raw * TemperatureResolution + d : raw \in RawTemperatures, d \in {0 - 4, 0, 3}}
    \cup {327680, 327676, 0 - 327690}

SetPayloads ==
    [rsvd : {0, 63}, mode : {"MANUAL", "AUTO", "RSVD2", "BOOST"}, temperature : Temperatures]

StatusPayloads ==
    [status_code : {"GOOD", "INVALID_TEMPERATURE"}, rsvd : {0, 15},
     heater_status : BOOLEAN, mode : Symbols(ThermostatMode), onoff_status : BOOLEAN,
     target_temperature : Temperatures, present_temperature : {0 - 15200, 26503, 327680}]

RangeStatusPayloads == [min_temperature : Temperatures, max_temperature : Temperatures]

ThermostatParamsInputs ==
    [subopcode : {"THERMOSTAT_GET", "THERMOSTAT_RANGE_GET"}, payload : {EmptyPayload}]
    \cup [subopcode : {"THERMOSTAT_SET"}, payload : SetPayloads]
    \cup [subopcode : {THERMOSTAT_STATUS}, payload : StatusPayloads]
    \cup [subopcode : {THERMOSTAT_RANGE_STATUS}, payload : RangeStatusPayloads]

\* What a caller builds: thermostat messages by opcode value or by name, and
\* raw payloads under explicit opcode values and under a name no opcode has.
BuildInputs ==
    [symbol : {""}, opcode : {THERMOSTAT}, params : ThermostatParamsInputs]
    \cup [symbol : {"THERMOSTAT"}, opcode : {None},
          params : [subopcode : {"THERMOSTAT_GET"}, payload : {EmptyPayload}]]
    \cup [symbol : {"NO_SUCH_OPCODE"}, opcode : {None}, params : RawPayloads]
    \cup [symbol : {""}, opcode : ExplicitOpcodes, params : RawPayloads]

\* What a caller hands send_subapp: the requests of the client and a range
\* status, with the values the encoder refuses included.
SendInputs ==
    [subopcode : {"THERMOSTAT_GET", "THERMOSTAT_RANGE_GET"}, payload : {EmptyPayload}]
    \cup [subopcode : {"THERMOSTAT_SET"}, payload : SetPayloads]
    \cup [subopcode : {THERMOSTAT_RANGE_STATUS}, payload : RangeStatusPayloads]

\* One call of send_subapp over a transport that may fail.
NextSend ==
    \/ /\ calls = <<>>
       /\ \E n \in Nodes, a \in AppIndexes, params \in SendInputs :
              SendSubapp(n, a, params.subopcode, params.payload)
    \/ \E c \in DOMAIN calls : SendSubappReturn(c)
    \/ \E c \in DOMAIN calls : SendSubappFault(c)

SpecSend == Init /\ [][NextSend]_vars

\* One call of AccessMessage.parse or AccessMessage.build.
NextCodec ==
    \/ \E data \in ParseInputs : codec = NoCodecCall /\ Parse(data)
    \/ \E obj \in BuildInputs : codec = NoCodecCall /\ Build(obj)

SpecCodec == Init /\ [][NextCodec]_vars

\* ------------------------------------------------------------------ claims
\* C1: a pending expectation is fulfilled at most once; the result of a
\* fulfilled future is the params of the first message its callback accepted,
\* and no later message changes it.
C1_FirstMatchWins ==
    \A e \in DOMAIN futures :
        futures[e].state = "finished" =>
            /\ futures[e].first # NoParams
            /\ futures[e].result = futures[e].first

\* A fulfilled future after which another message passing its filter was dispatched.
C1_Witness ==
    \E e \in DOMAIN futures :
        /\ futures[e].state = "finished"
        /\ futures[e].late
        /\ futures[e].result = futures[e].first

\* Node k's reply was the only traffic dispatched while call c was running.
OnlyReplied(c, k) ==
    /\ ~calls[c].noise
    /\ calls[c].heard[k] # None
    /\ \A j \in 1..Len(calls[c].keys) : j # k => calls[c].heard[j] = None

\* C2: a bulk get to N distinct nodes during which only node K's reply is
\* dispatched returns K -> the replied value and every other node -> None,
\* whatever K and whatever the order of the requests.
C2_TimeoutIndependence ==
    \A c \in DOMAIN calls :
        (/\ calls[c].kind \in BulkGetKinds
         /\ calls[c].state \in {"returned", "fault"}
         /\ IsDistinct(calls[c].nodes))
        => \A k \in 1..Len(calls[c].keys) :
              OnlyReplied(c, k) =>
                 /\ calls[c].state = "returned"
                 /\ calls[c].ret = [j \in 1..Len(calls[c].keys) |->
                                        IF j = k THEN calls[c].heard[k] ELSE None]

\* A returned vendor bulk get to all nodes, in descending order, in which only
\* the node asked last replied.
C2_Witness ==
    \E c \in DOMAIN calls :
        /\ calls[c].kind = "thermostat_get"
        /\ calls[c].state = "returned"
        /\ Len(calls[c].nodes) = MaxNode
        /\ IsDistinct(calls[c].nodes)
        /\ calls[c].nodes[1] > calls[c].nodes[Len(calls[c].nodes)]
        /\ OnlyReplied(c, Len(calls[c].keys))
        /\ calls[c].ret[Len(calls[c].keys)] \in Values

\* C3: a sensor get whose expectation was not matched when the timeout fired
\* returns None and raises no fault.
C3_QueryTimeoutIsAbsent ==
    \A c \in DOMAIN calls :
        (/\ calls[c].kind \in SingleKinds
         /\ calls[c].state \in {"returned", "fault"}
         /\ futures[calls[c].futs[1]].state # "finished")
        => /\ calls[c].state = "returned"
           /\ calls[c].ret = <<None>>

\* A sensor get that returned with its future settled by the timeout.
C3_Witness ==
    \E c \in DOMAIN calls :
        /\ calls[c].kind = "sensor_get"
        /\ calls[c].state = "returned"
        /\ futures[calls[c].futs[1]].state = "cancelled"
        /\ calls[c].ret = <<None>>

\* The set calls whose messages carry a transaction identifier.
AnySetKinds == SetKinds \cup SetupSetKinds \cup TidUnackKinds

\* C4 as claimed: every set call, acknowledged to one or more distinct nodes
\* or unacknowledged, leaves the client's tid counter advanced exactly once.
C4_TidAdvancesOncePerSet ==
    \A c \in DOMAIN calls :
        (/\ calls[c].kind \in AnySetKinds
         /\ Len(calls[c].nodes) >= 1
         /\ IsDistinct(calls[c].nodes))
        => calls[c].tid1 = tid(calls[c].tid0)

\* C5: all transmissions of one unacknowledged set carry the tid the call took
\* when it started, also when other set calls start in between.
C5_RepeatsShareTid ==
    \A c \in DOMAIN calls :
        calls[c].kind \in TidUnackKinds =>
            \A i \in 1..Len(calls[c].sent) :
                /\ calls[c].sent[i].tid = calls[c].sent[1].tid
                /\ calls[c].sent[i].tid = calls[c].tid1

\* An unacknowledged set that finished with a further transmission after
\* another set call had started between its transmissions.
C5_Witness ==
    \E c \in DOMAIN calls :
        /\ calls[c].kind \in TidUnackKinds
        /\ calls[c].state = "returned"
        /\ Len(calls[c].sent) >= 2
        /\ calls[c].overlapped
        /\ tidCounter # calls[c].tid1

TidsUsed(c) == {calls[c].tids[i] : i \in 1..Len(calls[c].tids)}

\* C6 as claimed: no transaction identifier used by a set call is used by the
\* set call the client makes next, whatever the number of nodes of either.
C6_ConsecutiveSetsDiffer ==
    \A c \in DOMAIN calls :
        (/\ c + 1 \in DOMAIN calls
         /\ calls[c].kind \in AnySetKinds
         /\ calls[c + 1].kind \in AnySetKinds)
        => TidsUsed(c) \cap TidsUsed(c + 1) = {}

\* C7: attempt i (0-indexed) of an unacknowledged lightness set carries the
\* delay max(0, D - i*I), D the delay the call starts from and I the interval
\* repeat sleeps between two transmissions; it is never negative.
C7_RemainingDelayLaw ==
    \A c \in DOMAIN calls :
        calls[c].kind \in DelayedUnackKinds =>
            \A i \in 1..Len(calls[c].sent) :
                /\ calls[c].sent[i].delay = Max(0, calls[c].delay0 - (i - 1) * calls[c].interval)
                /\ calls[c].sent[i].delay >= 0

\* An unacknowledged set whose delay ran out before its last transmission,
\* after a transmission with a positive remaining delay.
C7_Witness ==
    \E c \in DOMAIN calls :
        /\ calls[c].kind = "set_unack"
        /\ Len(calls[c].sent) >= 3
        /\ calls[c].sent[2].delay > 0
        /\ calls[c].delay0 - 2 * calls[c].interval < 0
        /\ calls[c].sent[3].delay = 0

\* C8 as claimed, for the vendor client: once a bulk query has returned, timed
\* out or been cancelled, none of its expectations is registered any more.
C8_NoExpectationOutlivesCall ==
    \A c \in DOMAIN calls :
        (calls[c].kind \in VendorKinds /\ calls[c].state # "active")
        => \A e \in callbacks : futures[e].owner # c

\* C9: a future settled by the timeout or by cancellation is never fulfilled,
\* and a fulfilled future stays fulfilled.
C9_SettledIsTerminal ==
    [][\A e \in DOMAIN futures :
          /\ futures[e].state = "cancelled" =>
                (futures'[e].state = "cancelled" /\ futures'[e].result = NoParams)
          /\ futures[e].state = "finished" => futures'[e].state = "finished"]_vars

\* A timed-out future whose callback was handed a matching message afterwards.
C9_Witness ==
    \E e \in DOMAIN futures :
        /\ futures[e].state = "cancelled"
        /\ futures[e].late
        /\ futures[e].first # NoParams
        /\ futures[e].result = NoParams

\* C10: one inbound message fulfils at most one pending expectation.
C10_OneMessageOneExpectation ==
    [][Cardinality({e \in DOMAIN futures :
           futures[e].state = "pending" /\ futures'[e].state = "finished"}) <= 1]_vars

\* Two expectations with the same filter, the older still pending and
\* registered after a message fulfilled the younger.
C10_Witness ==
    \E e1, e2 \in DOMAIN futures :
        /\ e2 < e1
        /\ futures[e1].state = "finished"
        /\ futures[e2].state = "pending"
        /\ e2 \in callbacks
        /\ futures[e1].source = futures[e2].source
        /\ futures[e1].app_index = futures[e2].app_index
        /\ futures[e1].opcode = futures[e2].opcode

\* C11: a get during which the transport failed on a request ends with the
\* transport's fault and returns no mapping, so the node is not reported as
\* None; a get that returned a mapping, timed-out nodes included, raised none.
C11_TransportFaultIsAFault ==
    \A c \in DOMAIN calls :
        /\ calls[c].failed # None =>
              /\ calls[c].state = "fault"
              /\ calls[c].error = TransportError
              /\ calls[c].ret = <<>>
        /\ calls[c].state = "returned" =>
              /\ calls[c].failed = None
              /\ calls[c].error = ""

\* A bulk get whose second request failed after the first node had replied.
C11_Witness ==
    \E c \in DOMAIN calls :
        /\ calls[c].kind \in BulkGetKinds
        /\ calls[c].failed = 2
        /\ calls[c].state = "fault"
        /\ futures[calls[c].futs[1]].state = "finished"

\* The get has returned a mapping in which every node whose status was not
\* fulfilled is None.
ReturnedWithAbsent(c) ==
    /\ calls[c].state = "returned"
    /\ \A i \in 1..Len(calls[c].keys) :
          futures[calls[c].futs[i]].state # "finished" => calls[c].ret[i] = None

\* C12 as claimed: every query or bulk query that starts returns, whatever is
\* delivered or lost and whether or not the caller passed a timeout, with every
\* unresolved node None.
C12_EveryGetReturns ==
    (calls # <<>>) ~> (calls # <<>> /\ ReturnedWithAbsent(1))

\* The nodes the call has issued a request to.
Asked(c) == {calls[c].sent[i].destination : i \in 1..Len(calls[c].sent)}

RepeatCountOf(c) ==
    IF calls[c].retransmissions = None THEN UNACK_RETRANSMISSIONS
    ELSE calls[c].retransmissions

\* C13: an unacknowledged set with repeat count R never sends more than R
\* times, has returned exactly when the R-th transmission has been made (at
\* once when R is 0), and owns no expectation, so that no inbound message is
\* consumed by it.
C13_RepeatSendsExactlyR ==
    \A c \in DOMAIN calls :
        calls[c].kind \in UnackKinds =>
            /\ Len(calls[c].sent) <= RepeatCountOf(c)
            /\ (calls[c].state = "returned") <=> (Len(calls[c].sent) = RepeatCountOf(c))
            /\ \A e \in DOMAIN futures : futures[e].owner # c

\* An unacknowledged default set that returned after the caller's MaxRepeat
\* transmissions while an acknowledged set of the same client was waiting.
C13_Witness ==
    \E c, d \in DOMAIN calls :
        /\ calls[c].kind = "default_set_unack"
        /\ calls[c].retransmissions = MaxRepeat
        /\ calls[c].state = "returned"
        /\ Len(calls[c].sent) = MaxRepeat
        /\ calls[d].kind \in SetKinds
        /\ \E e \in callbacks : futures[e].owner = d

\* The number of octets of the opcode that starts data, by its first octet.
OpcodeWidth(data) == IF data[1] < 128 THEN 1 ELSE IF data[1] < 192 THEN 2 ELSE 3

\* data starts with a whole opcode.
HasOpcode(data) == Len(data) >= 1 /\ Len(data) >= OpcodeWidth(data)

\* The opcode that starts data, octets big-endian, and the octets after it.
LeadingOpcode(data) ==
    IF OpcodeWidth(data) = 1 THEN data[1]
    ELSE IF OpcodeWidth(data) = 2 THEN data[1] * 256 + data[2]
    ELSE data[1] * 65536 + data[2] * 256 + data[3]

AfterOpcode(data) == SubSeq(data, OpcodeWidth(data) + 1, Len(data))

\* C15: parsing bytes whose leading opcode has no schema raises no fault and
\* returns the envelope of that opcode and exactly the bytes after it.
C15_UnknownOpcodePassthrough ==
    (/\ codec.op = "parse"
     /\ HasOpcode(codec.data)
     /\ LeadingOpcode(codec.data) \notin Registered)
    => /\ codec.out.fault = ""
       /\ codec.out.message.opcode = LeadingOpcode(codec.data)
       /\ codec.out.message.params = AfterOpcode(codec.data)

\* A three-octet opcode without schema and nothing after it, parsed.
C15_Witness ==
    /\ codec.op = "parse"
    /\ codec.data = <<193, 5, 0>>
    /\ codec.out.fault = ""
    /\ codec.out.message.params = NoBytes

\* C16: building an opcode value without schema writes the opcode's octets
\* followed by the raw payload as given, and parsing what was written gives
\* the same opcode and payload back.
C16_UnknownOpcodeRoundTrip ==
    (/\ codec.op = "build"
     /\ codec.obj.symbol = ""
     /\ IsOpcode(codec.obj.opcode)
     /\ codec.obj.opcode \notin Registered)
    => /\ codec.out.fault = ""
       /\ HasOpcode(codec.out.bytes)
       /\ LeadingOpcode(codec.out.bytes) = codec.obj.opcode
       /\ AfterOpcode(codec.out.bytes) = codec.obj.params
       /\ AccessMessage_parse(codec.out.bytes) =
              Result("", NoBytes, [opcode |-> codec.obj.opcode, params |-> codec.obj.params])

\* A two-octet opcode without schema built with a payload of MaxPayload octets.
C16_Witness ==
    /\ codec.op = "build"
    /\ codec.obj.opcode = 48897
    /\ Len(codec.obj.params) = MaxPayload
    /\ Len(codec.out.bytes) = 2 + MaxPayload

\* The fields of the thermostat payloads that hold a Temperature.
TemperatureFields ==
    {"temperature", "target_temperature", "present_temperature",
     "min_temperature", "max_temperature"}

\* The valid domain of a payload field: a Temperature from -327.68 to 327.67,
\* a symbol of the field's enumeration, a flag, reserved bits within their width.
ValidField(subopcode, name, value) ==
    IF name \in TemperatureFields
    THEN value >= 0 - 32768 * TemperatureResolution /\ value <= 32767 * TemperatureResolution
    ELSE IF name = "mode" THEN value \in Symbols(ThermostatMode)
    ELSE IF name = "status_code" THEN value \in Symbols(ThermostatStatusCode)
    ELSE IF name = "rsvd"
    THEN value \in 0..(IF subopcode = "THERMOSTAT_SET" THEN 63 ELSE 15)
    ELSE value \in BOOLEAN

ValidParams(params) ==
    /\ params.subopcode \in Symbols(ThermostatSubOpcode)
    /\ \A name \in DOMAIN params.payload :
           ValidField(params.subopcode, name, params.payload[name])

\* Two payloads of the same fields, the temperatures within the resolution of
\* each other and every other field equal.
SamePayload(p, q) ==
    /\ DOMAIN p = DOMAIN q
    /\ \A name \in DOMAIN p :
           IF name \in TemperatureFields
           THEN /\ p[name] - q[name] <= TemperatureResolution
                /\ q[name] - p[name] <= TemperatureResolution
           ELSE p[name] = q[name]

\* obj is a thermostat message, its opcode given by value or by name.
IsThermostat(obj) == obj.opcode = THERMOSTAT \/ obj.symbol = "THERMOSTAT"

\* C17: a thermostat sub-message whose fields are in their valid domains is
\* built without fault; parsing the bytes built gives the same sub-opcode and
\* payload, temperatures within 0.01, and building what was parsed gives the
\* same bytes again.  Bytes that parse as a thermostat message are rebuilt from
\* the parsed message octet for octet.
C17_ThermostatRoundTrip ==
    /\ (codec.op = "build" /\ IsThermostat(codec.obj) /\ ValidParams(codec.obj.params))
       => /\ codec.out.fault = ""
          /\ LET back == AccessMessage_parse(codec.out.bytes)
             IN /\ back.fault = ""
                /\ back.message.opcode = THERMOSTAT
                /\ back.message.params.subopcode = codec.obj.params.subopcode
                /\ SamePayload(back.message.params.payload, codec.obj.params.payload)
                /\ AccessMessage_build([symbol |-> "", opcode |-> THERMOSTAT,
                                        params |-> back.message.params]).bytes
                       = codec.out.bytes
    /\ (codec.op = "parse" /\ codec.out.fault = "" /\ codec.out.message.opcode = THERMOSTAT)
       => LET again == AccessMessage_build([symbol |-> "", opcode |-> THERMOSTAT,
                                            params |-> codec.out.message.params])
          IN /\ again.fault = ""
             /\ Len(again.bytes) <= Len(codec.data)
             /\ again.bytes = SubSeq(codec.data, 1, Len(again.bytes))

\* A STATUS built from a target temperature off the 0.01 grid, -15.204, which
\* reads back as -15.2.
C17_Witness ==
    /\ codec.op = "build"
    /\ codec.obj.opcode = THERMOSTAT
    /\ codec.obj.params.subopcode = THERMOSTAT_STATUS
    /\ codec.obj.params.payload.target_temperature = 0 - 15204
    /\ codec.obj.params.payload.present_temperature = 26503
    /\ codec.out.fault = ""
    /\ AccessMessage_parse(codec.out.bytes).message.params.payload.target_temperature
           = 0 - 15200

\* The octets of a thermostat frame after the opcode: the sub-opcode octet and
\* the payload.
SubOpcodeOctet(data) == AfterOpcode(data)[1]
PayloadOctets(data) == Tail(AfterOpcode(data))

\* The octets the payload schema of a sub-opcode octet takes: none for GET and
\* RANGE_GET, bit fields and a temperature for SET, status code, bit fields
\* and two temperatures for STATUS, two temperatures for RANGE_STATUS.
PayloadSize(octet) ==
    IF octet = 1 THEN 3 ELSE IF octet = 2 THEN 6 ELSE IF octet = 4 THEN 4 ELSE 0

\* The fields of the payload schema of a sub-opcode.
PayloadFields(subopcode) ==
    IF subopcode = "THERMOSTAT_SET" THEN {"rsvd", "mode", "temperature"}
    ELSE IF subopcode = THERMOSTAT_STATUS
    THEN {"status_code", "rsvd", "heater_status", "mode", "onoff_status",
          "target_temperature", "present_temperature"}
    ELSE IF subopcode = THERMOSTAT_RANGE_STATUS THEN {"min_temperature", "max_temperature"}
    ELSE {}

\* data starts with the thermostat's opcode.
IsThermostatFrame(data) == HasOpcode(data) /\ LeadingOpcode(data) = THERMOSTAT

\* A thermostat frame that holds a sub-opcode octet of the enumeration, all
\* the octets of its payload, and values of the payload's enumerations.
WellFormed(data) ==
    /\ IsThermostatFrame(data)
    /\ Len(AfterOpcode(data)) >= 1
    /\ SubOpcodeOctet(data) + 1 \in DOMAIN ThermostatSubOpcode
    /\ Len(PayloadOctets(data)) >= PayloadSize(SubOpcodeOctet(data))
    /\ (SubOpcodeOctet(data) = 2 =>
            PayloadOctets(data)[1] + 1 \in DOMAIN ThermostatStatusCode)

\* C18: a well-formed frame of opcode 0xC00500 decodes without fault; the octet
\* after the opcode is the sub-opcode, the payload has exactly the fields of
\* that sub-opcode's schema and is what that schema reads from the octets
\* after the sub-opcode.  C0 05 00 01 00 5A 0A is SET, mode the first value of
\* ThermostatMode, temperature 26.5.
C18_SubOpcodeSelectsSchema ==
    /\ (codec.op = "parse" /\ WellFormed(codec.data))
       => /\ codec.out.fault = ""
          /\ codec.out.message.opcode = THERMOSTAT
          /\ LET params == codec.out.message.params
             IN /\ params.subopcode = ThermostatSubOpcode[SubOpcodeOctet(codec.data) + 1]
                /\ DOMAIN params.payload = PayloadFields(params.subopcode)
                /\ params.payload =
                       Payload_parse(params.subopcode, PayloadOctets(codec.data)).value
    /\ (codec.op = "parse" /\ codec.data = <<192, 5, 0, 1, 0, 90, 10>>)
       => codec.out.message =
              [opcode |-> THERMOSTAT,
               params |-> [subopcode |-> "THERMOSTAT_SET",
                           payload |-> [rsvd |-> 0, mode |-> ThermostatMode[1],
                                        temperature |-> 2650 * TemperatureResolution]]]

\* C0 05 00 01 00 5A 0A parsed: SET, MANUAL, 26.5.
C18_Witness ==
    /\ codec.op = "parse"
    /\ codec.data = <<192, 5, 0, 1, 0, 90, 10>>
    /\ codec.out.fault = ""
    /\ codec.out.message.params.subopcode = "THERMOSTAT_SET"
    /\ codec.out.message.params.payload.mode = "MANUAL"
    /\ codec.out.message.params.payload.temperature = 26500

\* The raw count of a temperature does not fit the signed 16-bit field.
Unencodable(value) ==
    \/ round(value, TemperatureResolution) < 0 - 32768
    \/ round(value, TemperatureResolution) > 32767

\* Some temperature of the payload is unencodable.
HasUnencodable(payload) ==
    \E name \in DOMAIN payload \cap TemperatureFields : Unencodable(payload[name])

\* C19: building a thermostat message one of whose temperatures has a raw
\* count outside the signed 16-bit range is a fault and gives no bytes.
C19_OutOfRangeIsAFault ==
    (/\ codec.op = "build"
     /\ IsThermostat(codec.obj)
     /\ HasUnencodable(codec.obj.params.payload))
    => /\ codec.out.fault # ""
       /\ codec.out.bytes = NoBytes
       /\ (ValidParams([codec.obj.params EXCEPT
                           !.payload = [name \in DOMAIN @ |->
                                           IF name \in TemperatureFields THEN 0
                                           ELSE @[name]]])
              => codec.out.fault = FormatFieldError)

\* A SET of 327.676, whose raw count is 32768, refused by the 16-bit field.
C19_Witness ==
    /\ codec.op = "build"
    /\ codec.obj.params.subopcode = "THERMOSTAT_SET"
    /\ codec.obj.params.payload.mode = "MANUAL"
    /\ codec.obj.params.payload.temperature = 327676
    /\ codec.out.fault = FormatFieldError
    /\ codec.out.bytes = NoBytes

\* C20: a frame of the thermostat's opcode that is cut short or holds a value
\* outside an enumeration is a decode fault: no message is returned, neither
\* a part of the thermostat message nor the envelope of the raw octets.
C20_MalformedIsAFault ==
    (/\ codec.op = "parse"
     /\ IsThermostatFrame(codec.data)
     /\ ~WellFormed(codec.data))
    => /\ codec.out.fault # ""
       /\ codec.out.message = NoMessage
       /\ (Len(AfterOpcode(codec.data)) >= 1
           /\ SubOpcodeOctet(codec.data) + 1 \in DOMAIN ThermostatSubOpcode
           /\ Len(PayloadOctets(codec.data)) < PayloadSize(SubOpcodeOctet(codec.data))
           /\ (SubOpcodeOctet(codec.data) = 2 /\ PayloadOctets(codec.data) # NoBytes
                  => PayloadOctets(codec.data)[1] + 1 \in DOMAIN ThermostatStatusCode)
           => codec.out.fault = StreamError)

\* A SET cut short inside its temperature, refused.
C20_Witness ==
    /\ codec.op = "parse"
    /\ codec.data = <<192, 5, 0, 1, 0, 90>>
    /\ codec.out.fault = StreamError
    /\ codec.out.message = NoMessage

\* The two octets of a signed 16-bit count as an unsigned number.
Unsigned16(raw) == IF raw < 0 THEN raw + 65536 ELSE raw

\* The octets at which the temperatures of a built thermostat message start,
\* after three octets of opcode and one of sub-opcode.
TemperatureOffsets(subopcode) ==
    IF subopcode = "THERMOSTAT_SET" THEN [temperature |-> 6]
    ELSE IF subopcode = THERMOSTAT_STATUS
    THEN [target_temperature |-> 7, present_temperature |-> 9]
    ELSE IF subopcode = THERMOSTAT_RANGE_STATUS
    THEN [min_temperature |-> 5, max_temperature |-> 7]
    ELSE EmptyPayload

\* A thermostat message built without fault.
BuiltThermostat ==
    /\ codec.op = "build"
    /\ IsThermostat(codec.obj)
    /\ codec.out.fault = ""

\* C21 as stated: every temperature of a built thermostat message has the most
\* significant octet of its raw count first.
C21_BigEndianIntegers ==
    BuiltThermostat =>
        LET at == TemperatureOffsets(codec.obj.params.subopcode)
        IN \A name \in DOMAIN at :
               LET raw == Unsigned16(round(codec.obj.params.payload[name],
                                           TemperatureResolution))
               IN /\ codec.out.bytes[at[name]] = raw \div 256
                  /\ codec.out.bytes[at[name] + 1] = raw % 256

\* C21, amended: the opcode of a built thermostat message is written most
\* significant octet first, and every temperature least significant octet
\* first; the parser reads them the same way.
C21_LittleEndianTemperatures ==
    /\ BuiltThermostat =>
           /\ SubSeq(codec.out.bytes, 1, 3) =
                  <<THERMOSTAT \div 65536, (THERMOSTAT \div 256) % 256, THERMOSTAT % 256>>
           /\ LET at == TemperatureOffsets(codec.obj.params.subopcode)
              IN \A name \in DOMAIN at :
                     LET raw == Unsigned16(round(codec.obj.params.payload[name],
                                                 TemperatureResolution))
                     IN /\ codec.out.bytes[at[name]] = raw % 256
                        /\ codec.out.bytes[at[name] + 1] = raw \div 256
    /\ (codec.op = "parse" /\ WellFormed(codec.data)) =>
           LET at == TemperatureOffsets(codec.out.message.params.subopcode)
           IN \A name \in DOMAIN at :
                  Unsigned16(round(codec.out.message.params.payload[name],
                                   TemperatureResolution))
                      = codec.data[at[name]] + 256 * codec.data[at[name] + 1]

\* A SET of 26.5 built: raw count 2650 = 0x0A5A, on the wire 5A 0A.
C21_Witness ==
    /\ BuiltThermostat
    /\ codec.obj.params.subopcode = "THERMOSTAT_SET"
    /\ codec.obj.params.payload.temperature = 26500
    /\ SubSeq(codec.out.bytes, 6, 7) = <<90, 10>>

\* Bits high..low of an octet, bit 7 the most significant.
Bits(octet, high, low) == (octet \div 2 ^ low) % 2 ^ (high - low + 1)

\* The value an enumeration's symbol is written as.
ValueOf(enum, symbol) == (CHOOSE i \in DOMAIN enum : enum[i] = symbol) - 1

\* payload's bit fields are those of octet, the first declared in the highest
\* bits: STATUS is rsvd 7..4, heater_status 3, mode 2..1, onoff_status 0, and
\* SET is rsvd 7..2, mode 1..0.
PackedAs(subopcode, payload, octet) ==
    IF subopcode = THERMOSTAT_STATUS
    THEN /\ payload.rsvd = Bits(octet, 7, 4)
         /\ payload.heater_status = (Bits(octet, 3, 3) = 1)
         /\ ValueOf(ThermostatMode, payload.mode) = Bits(octet, 2, 1)
         /\ payload.onoff_status = (Bits(octet, 0, 0) = 1)
    ELSE /\ payload.rsvd = Bits(octet, 7, 2)
         /\ ValueOf(ThermostatMode, payload.mode) = Bits(octet, 1, 0)

\* The octet of a thermostat frame that holds the bit fields.
BitOctetAt(subopcode) == IF subopcode = THERMOSTAT_STATUS THEN 6 ELSE 5

\* C22: the bit fields of STATUS and SET occupy their octet most significant
\* bit first in the order of their declaration, in the octet a build writes
\* and in the payload a parse returns.
C22_BitFieldsMsbFirst ==
    /\ (BuiltThermostat
        /\ codec.obj.params.subopcode \in {"THERMOSTAT_SET", THERMOSTAT_STATUS})
       => PackedAs(codec.obj.params.subopcode, codec.obj.params.payload,
                   codec.out.bytes[BitOctetAt(codec.obj.params.subopcode)])
    /\ (codec.op = "parse" /\ WellFormed(codec.data)
        /\ SubOpcodeOctet(codec.data) \in {1, 2})
       => PackedAs(codec.out.message.params.subopcode, codec.out.message.params.payload,
                   codec.data[BitOctetAt(codec.out.message.params.subopcode)])

\* A STATUS built with rsvd 0, heater on, mode AUTO, onoff off: the octet is
\* 0000 1 01 0.
C22_Witness ==
    /\ BuiltThermostat
    /\ codec.obj.params.subopcode = THERMOSTAT_STATUS
    /\ codec.obj.params.payload.rsvd = 0
    /\ codec.obj.params.payload.heater_status
    /\ codec.obj.params.payload.mode = "AUTO"
    /\ ~codec.obj.params.payload.onoff_status
    /\ codec.out.bytes[6] = 10

\* C23: a fulfilled expectation was fulfilled by a message of the expected
\* source and application key and, when a destination filter was given, of
\* that destination, and holds that message's params; an expectation that is
\* pending has no result.
C23_OnlyMatchingFulfils ==
    \A e \in DOMAIN futures :
        /\ futures[e].state = "finished" =>
               /\ futures[e].by.source = futures[e].source
               /\ futures[e].by.app_index = futures[e].app_index
               /\ (futures[e].destination # None =>
                       futures[e].by.destination = futures[e].destination)
               /\ futures[e].result = Params(futures[e].by)
        /\ futures[e].state = "pending" =>
               /\ futures[e].result = NoParams
               /\ futures[e].by = NoInbound

\* An expectation with a destination filter that refused a message and was
\* then fulfilled by one sent to that destination.
C23_Witness ==
    \E e \in DOMAIN futures :
        /\ futures[e].destination = 1
        /\ futures[e].refused
        /\ futures[e].state = "finished"
        /\ futures[e].by.destination = 1

\* C24: a vendor expectation created for a sub-opcode is fulfilled only by a
\* message of that sub-opcode.
C24_OnlyExpectedSubOpcode ==
    \A e \in DOMAIN futures :
        (futures[e].opcode = OPCODE /\ futures[e].state = "finished")
            => futures[e].by.sub = futures[e].sub

\* C25: a sensor get issued under application key k returns the value of the
\* first status the target node sent under k while the call was running, and
\* None when there was none.
C25_SensorGetUnderItsKey ==
    \A c \in DOMAIN calls :
        (calls[c].kind \in SingleKinds /\ calls[c].state \in {"returned", "fault"})
        => /\ calls[c].state = "returned"
           /\ calls[c].ret = <<calls[c].heard[1]>>

\* C26: every acknowledged operation of the lightness client hands bulk_query
\* the timeout its caller passed.
C26_TimeoutPassedUnchanged ==
    \A c \in DOMAIN calls :
        calls[c].op \in LightnessOps => calls[c].bulk_timeout = calls[c].timeout

\* C27: the first transmission of an unacknowledged lightness set carries the
\* delay the caller supplied, the model's default when none was supplied; with
\* an explicit delay of 0 every transmission carries delay 0.
C27_SuppliedDelayIsUsed ==
    \A c \in DOMAIN calls :
        (calls[c].kind \in DelayedUnackKinds /\ Len(calls[c].sent) >= 1) =>
            /\ calls[c].sent[1].delay =
                   (IF calls[c].delay = None THEN UNACK_DELAY ELSE calls[c].delay)
            /\ calls[c].delay = 0 =>
                   \A i \in 1..Len(calls[c].sent) : calls[c].sent[i].delay = 0

\* C28: the mapping a bulk get returns has one entry for each distinct node of
\* the node list and no other, and every entry is a decoded status or None,
\* whether or not the list names a node more than once.
C28_OneEntryPerDistinctNode ==
    \A c \in DOMAIN calls :
        (calls[c].kind \in BulkGetKinds /\ calls[c].state = "returned") =>
            /\ IsDistinct(calls[c].keys)
            /\ Range(calls[c].keys) = Range(calls[c].nodes)
            /\ DOMAIN calls[c].ret = DOMAIN calls[c].keys
            /\ Len(calls[c].ret) = Cardinality(Range(calls[c].nodes))
            /\ \A i \in DOMAIN calls[c].ret : calls[c].ret[i] \in Values \cup {None}

\* A bulk get of the same node twice that returned one entry, the node's status.
C28_Witness ==
    \E c \in DOMAIN calls :
        /\ calls[c].kind \in BulkGetKinds
        /\ calls[c].state = "returned"
        /\ Len(calls[c].nodes) = 2
        /\ calls[c].nodes[1] = calls[c].nodes[2]
        /\ Len(calls[c].ret) = 1
        /\ calls[c].ret[1] \in Values

\* C29: send_subapp hands the transport a message only when the encoder raised
\* no fault, and then exactly the bytes the encoder built; when the encoder
\* faults the call faults and the transport is handed nothing.
C29_EncodeBeforeSend ==
    \A c \in DOMAIN calls :
        calls[c].kind = "send_subapp" =>
            /\ codec.out.fault # "" =>
                   /\ calls[c].sent = <<>>
                   /\ calls[c].state = "fault"
                   /\ calls[c].error = codec.out.fault
            /\ codec.out.fault = "" =>
                   /\ codec.op = "parse"
                   /\ Len(calls[c].sent) = 1
                   /\ calls[c].sent[1].data = codec.data
                   /\ calls[c].sent[1].destination = calls[c].nodes[1]
                   /\ calls[c].sent[1].app_index = calls[c].app_index

\* A SET of 327.68 degrees: the encoder refuses it and nothing was sent.
C29_Witness ==
    \E c \in DOMAIN calls :
        /\ calls[c].kind = "send_subapp"
        /\ codec.op = "build"
        /\ codec.obj.params.subopcode = "THERMOSTAT_SET"
        /\ codec.obj.params.payload.temperature = 327680
        /\ codec.out.fault = FormatFieldError
        /\ calls[c].state = "fault"
        /\ calls[c].sent = <<>>

\* C30: building a message whose opcode is a name that no registered opcode
\* has is a fault and gives no bytes, whatever params it comes with; a name
\* that a registered opcode has is built like the opcode's value.
C30_UnknownNameIsAFault ==
    (codec.op = "build" /\ codec.obj.symbol # "") =>
        IF codec.obj.symbol = "THERMOSTAT"
        THEN LET byValue == AccessMessage_build([codec.obj EXCEPT !.symbol = "",
                                                                  !.opcode = THERMOSTAT])
             IN /\ codec.out.fault = byValue.fault
                /\ codec.out.bytes = byValue.bytes
                /\ codec.out.bytes = <<192, 5, 0, 0>>
        ELSE /\ codec.out.fault # ""
             /\ codec.out.bytes = NoBytes
             /\ codec.out.message = NoMessage

\* A raw payload of MaxPayload octets under a name no opcode has, refused,
\* where the same payload under an opcode value without schema is written.
C30_Witness ==
    /\ codec.op = "build"
    /\ codec.obj.symbol = "NO_SUCH_OPCODE"
    /\ Len(codec.obj.params) = MaxPayload
    /\ codec.out.fault = "StopIteration"
    /\ codec.out.bytes = NoBytes
    /\ AccessMessage_build([codec.obj EXCEPT !.symbol = "", !.opcode = 126]).bytes
           = <<126>> \o codec.obj.params

====
